---- MODULE Spec2Model ----
(***************************************************************************)
(* Workflow provenance analysis of src/workflow_analysis.py:               *)
(* analyze_comfyui_workflow = node normalisation, find_image_save_node,    *)
(* trace_workflow_inputs (_traverse with _handle_conditioning_link and its *)
(* _trace_prompt_source) and process_workflow_metadata.                    *)
(*                                                                         *)
(* Python strings are sequences of one-character strings, so that lower(), *)
(* substring tests, str(), int(), " ".join, strip and basename are         *)
(* computed.  Link payload types and category names are only ever compared *)
(* for equality by the code and are TLA+ strings.                          *)
(***************************************************************************)
EXTENDS Integers, Sequences, FiniteSets, TLC

\* Longest links list of a generated workflow.
MaxLinks == 3

\* The interpreter's recursion limit, scaled to the model: the number of nested
\* calls of _traverse and _trace_prompt_source at which RecursionError is raised.
RecursionLimit == 8

-----------------------------------------------------------------------------
(* Strings *)

UpperChars == <<"A","B","C","D","E","F","G","H","I","J","K","L","M",
                "N","O","P","Q","R","S","T","U","V","W","X","Y","Z">>
LowerChars == <<"a","b","c","d","e","f","g","h","i","j","k","l","m",
                "n","o","p","q","r","s","t","u","v","w","x","y","z">>
DigitChars == <<"0","1","2","3","4","5","6","7","8","9">>

\* str.lower() on one character
LowerOf == [c \in {UpperChars[i] : i \in 1..26} |->
               LowerChars[CHOOSE i \in 1..26 : UpperChars[i] = c]]
LowerChar(c) == IF c \in DOMAIN LowerOf THEN LowerOf[c] ELSE c

\* str.lower()
Lower(s) == [i \in 1..Len(s) |-> LowerChar(s[i])]

\* `sub in s` for strings
Contains(s, sub) ==
    \E i \in 0..(Len(s) - Len(sub)) : SubSeq(s, i + 1, i + Len(sub)) = sub

DigitOf == [c \in {DigitChars[i] : i \in 1..10} |->
               (CHOOSE i \in 1..10 : DigitChars[i] = c) - 1]
IsDigit(c) == c \in DOMAIN DigitOf
DigitVal(c) == DigitOf[c]

RECURSIVE DigitsVal(_)
DigitsVal(s) ==
    IF Len(s) = 0 THEN 0
    ELSE 10 * DigitsVal(SubSeq(s, 1, Len(s) - 1)) + DigitVal(s[Len(s)])

\* int(s) of a node id: the value for a string of decimal digits, ValueError
\* (ok = FALSE) for the empty string and for any string with another character.
ParseInt(s) ==
    IF Len(s) > 0 /\ \A i \in 1..Len(s) : IsDigit(s[i])
    THEN [ok |-> TRUE, val |-> DigitsVal(s)]
    ELSE [ok |-> FALSE, val |-> 0]

\* str(n) of a non-negative integer
RECURSIVE StrOfNat(_)
StrOfNat(n) ==
    IF n < 10 THEN <<DigitChars[n + 1]>>
    ELSE StrOfNat(n \div 10) \o <<DigitChars[(n % 10) + 1]>>

IsSpace(c) == c \in {" ", "\t", "\n", "\r"}

RECURSIVE LStrip(_)
LStrip(s) == IF Len(s) > 0 /\ IsSpace(s[1]) THEN LStrip(Tail(s)) ELSE s

RECURSIVE RStrip(_)
RStrip(s) ==
    IF Len(s) > 0 /\ IsSpace(s[Len(s)]) THEN RStrip(SubSeq(s, 1, Len(s) - 1)) ELSE s

\* str.strip()
Strip(s) == RStrip(LStrip(s))

\* " ".join(parts)
RECURSIVE JoinSpace(_)
JoinSpace(parts) ==
    IF Len(parts) = 0 THEN <<>>
    ELSE IF Len(parts) = 1 THEN parts[1]
    ELSE parts[1] \o <<" ">> \o JoinSpace(Tail(parts))

\* os.path.basename (posixpath): what follows the last "/"
RECURSIVE Basename(_)
Basename(p) ==
    IF \E i \in 1..Len(p) : p[i] = "/"
    THEN Basename(SubSeq(p, (CHOOSE i \in 1..Len(p) : p[i] = "/") + 1, Len(p)))
    ELSE p

-----------------------------------------------------------------------------
(* Literals of the source *)

K_save == <<"s","a","v","e">>
K_output == <<"o","u","t","p","u","t">>
K_export == <<"e","x","p","o","r","t">>
K_image == <<"i","m","a","g","e">>
K_SaveImage == <<"S","a","v","e"," ","I","m","a","g","e">>
K_positive == <<"p","o","s","i","t","i","v","e">>
K_negative == <<"n","e","g","a","t","i","v","e">>
K_lora == <<"l","o","r","a">>
K_loraloader == <<"l","o","r","a","l","o","a","d","e","r">>
K_loadlora == <<"l","o","a","d","l","o","r","a">>
K_applylora == <<"a","p","p","l","y","l","o","r","a">>
K_apply_lora == <<"a","p","p","l","y","_","l","o","r","a">>
K_model == <<"m","o","d","e","l">>
K_MODEL == <<"M","O","D","E","L">>
K_concat == <<"c","o","n","c","a","t">>
K_UnknownType == <<"U","n","k","n","o","w","n"," ","T","y","p","e">>
K_UnknownSource == <<"U","n","k","n","o","w","n"," ","S","o","u","r","c","e">>
K_UnknownModelSource ==
    <<"U","n","k","n","o","w","n"," ","M","o","d","e","l"," ","S","o","u","r","c","e">>
K_Node == <<"N","o","d","e"," ">>

image_save_keywords == <<K_save, K_output, K_export>>
lora_loader_keywords == <<K_lora, K_loraloader, K_loadlora, K_applylora, K_apply_lora>>
TextLinkTypes == {"STRING", "TEXT", "CONDITIONING"}
ParameterLinkTypes == {"VAE", "LATENT", "CFG", "SAMPLER", "SCHEDULER", "DENOISE", "STEPS"}
FilenameCategories == {"Base Models", "VAE", "CLIP", "Checkpoint", "Model", "LoRA Models"}
SourceNodesCategory == "Source Nodes (No Parameters)"
NoParamsDescription == "Node with no incoming links and no explicit parameters."

-----------------------------------------------------------------------------
(* Values: a Python str, a non-negative int, or a list of values.  Every   *)
(* value has the same fields so that any two can be compared.              *)

VStr(chars) == [k |-> "str", s |-> chars, n |-> 0, l |-> <<>>]
VNum(num) == [k |-> "num", s |-> <<>>, n |-> num, l |-> <<>>]
VList(elems) == [k |-> "list", s |-> <<>>, n |-> 0, l |-> elems]
VNone == [k |-> "none", s |-> <<>>, n |-> 0, l |-> <<>>]

\* repr() of a str without quotes or escapes, and of an int
ReprScalar(v) ==
    IF v.k = "str" THEN <<"'">> \o v.s \o <<"'">>
    ELSE IF v.k = "num" THEN StrOfNat(v.n)
    ELSE <<"N","o","n","e">>

RECURSIVE ReprElems(_)
ReprElems(l) ==
    IF Len(l) = 0 THEN <<>>
    ELSE IF Len(l) = 1 THEN ReprScalar(l[1])
    ELSE ReprScalar(l[1]) \o <<",", " ">> \o ReprElems(Tail(l))

\* str(v): a str is itself, an int its decimal digits, a list of scalars its repr
StrOfValue(v) ==
    IF v.k = "str" THEN v.s
    ELSE IF v.k = "num" THEN StrOfNat(v.n)
    ELSE IF v.k = "list" THEN <<"[">> \o ReprElems(v.l) \o <<"]">>
    ELSE <<"N","o","n","e">>

\* isinstance(v, (str, int, float))
IsTextScalar(v) == v.k \in {"str", "num"}

-----------------------------------------------------------------------------
(* Node records and links *)

\* One entry of a node's `inputs`
InputDef(nm, ty) == [name |-> nm, type |-> ty]

\* A node record: the keys the analysis reads.  has_* tells whether the key is
\* present; `mode` absent reads as 0.
NodeRec(hid, id, hty, ty, ht, ti, md, hin, ins, hw, wv) ==
    [has_id |-> hid, id |-> id, has_type |-> hty, type |-> ty,
     has_title |-> ht, title |-> ti, mode |-> md,
     has_inputs |-> hin, inputs |-> ins, has_widgets |-> hw, widgets_values |-> wv]

\* node_data.get('type', default)
GetType(rec, default) == IF rec.has_type THEN rec.type ELSE default

\* node_data.get('title', default)
GetTitle(rec, default) == IF rec.has_title THEN rec.title ELSE default

\* 'widgets_values' in node_data and node_data['widgets_values']
HasWidgets(rec) == rec.has_widgets /\ Len(rec.widgets_values) > 0

\* A link is [link_num, output_node_id, output_idx, input_node_id, input_idx, type];
\* Python's link[i] is the tuple's element i + 1.
Link(num, src, out, tgt, idx, ty) == <<num, src, out, tgt, idx, ty>>

\* The canonical node mapping is an insertion-ordered dict: a sequence of
\* [key, rec] with distinct keys.
DictHas(d, key) == \E i \in 1..Len(d) : d[i].key = key
DictGet(d, key) == d[CHOOSE i \in 1..Len(d) : d[i].key = key].rec
DictSet(d, key, rec) ==
    IF DictHas(d, key)
    THEN [i \in 1..Len(d) |-> IF d[i].key = key THEN [key |-> key, rec |-> rec] ELSE d[i]]
    ELSE Append(d, [key |-> key, rec |-> rec])

-----------------------------------------------------------------------------
(* Graph Loader, Sink Locator, Edge Index *)

\* The loop over a list of nodes that ends at the first record without `id`
RECURSIVE NodesFromList_StopAtMissingId(_, _)
NodesFromList_StopAtMissingId(recs, acc) ==
    IF Len(recs) = 0 \/ ~Head(recs).has_id THEN acc
    ELSE NodesFromList_StopAtMissingId(Tail(recs),
                                       DictSet(acc, StrOfNat(Head(recs).id), Head(recs)))

\* The node normalisation of analyze_comfyui_workflow and trace_workflow_inputs:
\* a mapping {k: rec} becomes {str(k): rec}; a list becomes {str(rec.id): rec},
\* the records without 'id' being skipped; anything else is not normalised.
RECURSIVE NodesFromList(_, _)
NodesFromList(recs, acc) ==
    IF Len(recs) = 0 THEN acc
    ELSE NodesFromList(Tail(recs),
                       IF Head(recs).has_id
                       THEN DictSet(acc, StrOfNat(Head(recs).id), Head(recs))
                       ELSE acc)

NormalizeNodes(w) ==
    IF w.nodes_form = "dict" THEN [ok |-> TRUE, nodes |-> w.nodes_dict]
    ELSE IF w.nodes_form = "list"
    THEN [ok |-> TRUE, nodes |-> NodesFromList(w.nodes_list, <<>>)]
    ELSE IF w.nodes_form = "absent" THEN [ok |-> TRUE, nodes |-> <<>>]
    ELSE [ok |-> FALSE, nodes |-> <<>>]

\* workflow.get('links', [])
GetLinks(w) == IF w.has_links THEN w.links ELSE <<>>

\* Does this node make find_image_save_node return?
IsImageSaveNode(rec) ==
    /\ LET node_type == Lower(GetType(rec, <<>>))
       IN  \E i \in 1..Len(image_save_keywords) :
               Contains(node_type, image_save_keywords[i])
    /\ IF rec.has_inputs
       THEN \E i \in 1..Len(rec.inputs) : Lower(rec.inputs[i].type) = K_image
       ELSE rec.has_type /\ rec.type = K_SaveImage

\* find_image_save_node: the first node in mapping order that qualifies
find_image_save_node(nodes) ==
    IF \E i \in 1..Len(nodes) : IsImageSaveNode(nodes[i].rec)
    THEN LET i == CHOOSE j \in 1..Len(nodes) :
                      /\ IsImageSaveNode(nodes[j].rec)
                      /\ \A h \in 1..(j - 1) : ~IsImageSaveNode(nodes[h].rec)
         IN  [found |-> TRUE, id |-> nodes[i].key]
    ELSE [found |-> FALSE, id |-> <<>>]

\* get_node_inputs_from_links without the comparison of the link's target
get_node_inputs_from_links_AnyTarget(target_node_id, all_links) ==
    IF Len(all_links) > 0 /\ ~ParseInt(target_node_id).ok
    THEN [ok |-> FALSE, links |-> <<>>]
    ELSE [ok |-> TRUE, links |-> all_links]

\* get_node_inputs_from_links that returns at the first link found
get_node_inputs_from_links_FirstOnly(target_node_id, all_links) ==
    LET target == ParseInt(target_node_id)
        LinksTo(link) == link[4] = target.val
        found == SelectSeq(all_links, LinksTo)
    IN  IF Len(all_links) > 0 /\ ~target.ok
        THEN [ok |-> FALSE, links |-> <<>>]
        ELSE [ok |-> TRUE, links |-> SubSeq(found, 1, IF Len(found) > 0 THEN 1 ELSE 0)]

\* get_node_inputs_from_links: int(target_node_id) is evaluated once per link,
\* so it raises ValueError only when there is a link to compare with.
get_node_inputs_from_links(target_node_id, all_links) ==
    LET target == ParseInt(target_node_id)
        LinksTo(link) == link[4] = target.val
    IN  IF Len(all_links) > 0 /\ ~target.ok
        THEN [ok |-> FALSE, links |-> <<>>]
        ELSE [ok |-> TRUE, links |-> SelectSeq(all_links, LinksTo)]

-----------------------------------------------------------------------------
(* Findings and the category map *)

Finding(id, ty, ti, hlt, lt, hv, v, hd) ==
    [node_id |-> id, node_type |-> ty, title |-> ti,
     has_type |-> hlt, type |-> lt, has_value |-> hv, value |-> v,
     has_description |-> hd,
     description |-> IF hd THEN NoParamsDescription ELSE ""]

EmptyMap == [c \in {} |-> <<>>]

\* if category not in identified_inputs: identified_inputs[category] = []
WithCategory(ii, c) ==
    [x \in DOMAIN ii \cup {c} |-> IF x \in DOMAIN ii THEN ii[x] ELSE <<>>]

\* identified_inputs[category].append(f), the category being present
AppendTo(ii, c, f) == [ii EXCEPT ![c] = Append(@, f)]

-----------------------------------------------------------------------------
(* Provenance Tracer.  The operators below map one state of an analysis,   *)
(* a record s, to the next one.  s.stack holds the active calls of         *)
(* _traverse (the last element is the innermost), each with the incoming   *)
(* links it has still to dispatch; s.pstack holds the active calls of      *)
(* _trace_prompt_source of the current _handle_conditioning_link.          *)

Top(stk) == stk[Len(stk)]
Pop(stk) == SubSeq(stk, 1, Len(stk) - 1)

\* f"Node {id} ({type})"
DefaultTitle(id, ty) == K_Node \o id \o <<" ", "(">> \o ty \o <<")">>

\* The finding of the source-node branch of _traverse
SourceNodeFinding(id, node) ==
    Finding(id, GetType(node, K_UnknownType),
            GetTitle(node, DefaultTitle(id, GetType(node, K_UnknownType))),
            FALSE, "", FALSE, VNone, TRUE)

\* The source-node branch recording nothing
RecordSourceNode_Never(ii, id, node) == ii

\* The source-node branch: a node without incoming links is recorded when it
\* is enabled and has no widgets_values.
RecordSourceNode(ii, id, node) ==
    IF node.mode = 0 /\ ~HasWidgets(node)
    THEN AppendTo(WithCategory(ii, SourceNodesCategory), SourceNodesCategory,
                  SourceNodeFinding(id, node))
    ELSE ii

\* A call one level deeper: RecursionError at the recursion limit
Overflows(s) == Len(s.stack) + Len(s.pstack) >= RecursionLimit

\* _traverse without the return for a node that is not in the workflow
Enter_DescendMissing(s, id) ==
    IF Overflows(s) THEN [s EXCEPT !.pc = "overflow"]
    ELSE IF id \in s.visited THEN s
    ELSE LET s1 == [s EXCEPT !.visited = @ \cup {id}]
             incoming == get_node_inputs_from_links(id, s.links)
         IN  IF ~incoming.ok THEN [s1 EXCEPT !.pc = "raised"]
             ELSE IF Len(incoming.links) = 0
             THEN IF DictHas(s.nodes, id)
                  THEN [s1 EXCEPT !.identified_inputs =
                                      RecordSourceNode(@, id, DictGet(s.nodes, id))]
                  ELSE s1
             ELSE [s1 EXCEPT !.stack =
                       Append(@, [node |-> id, links |-> incoming.links])]

\* _traverse without `if current_node_id in visited: return`
Enter_Unguarded(s, id) ==
    IF Overflows(s) THEN [s EXCEPT !.pc = "overflow"]
    ELSE LET s1 == [s EXCEPT !.visited = @ \cup {id}]
         IN  IF ~DictHas(s.nodes, id) THEN s1
             ELSE LET node == DictGet(s.nodes, id)
                      incoming == get_node_inputs_from_links(id, s.links)
                  IN  IF ~incoming.ok THEN [s1 EXCEPT !.pc = "raised"]
                      ELSE IF Len(incoming.links) = 0
                      THEN [s1 EXCEPT !.identified_inputs = RecordSourceNode(@, id, node)]
                      ELSE [s1 EXCEPT !.stack =
                                Append(@, [node |-> id, links |-> incoming.links])]

\* The call _traverse(id) up to its loop over the incoming links
Enter(s, id) ==
    IF Overflows(s) THEN [s EXCEPT !.pc = "overflow"]
    ELSE IF id \in s.visited THEN s
    ELSE LET s1 == [s EXCEPT !.visited = @ \cup {id}]
         IN  IF ~DictHas(s.nodes, id) THEN s1
             ELSE LET node == DictGet(s.nodes, id)
                      incoming == get_node_inputs_from_links(id, s.links)
                  IN  IF ~incoming.ok THEN [s1 EXCEPT !.pc = "raised"]
                      ELSE IF Len(incoming.links) = 0
                      THEN [s1 EXCEPT !.identified_inputs = RecordSourceNode(@, id, node)]
                      ELSE [s1 EXCEPT !.stack =
                                Append(@, [node |-> id, links |-> incoming.links])]

\* The calls of _traverse that have dispatched all their links return; when the
\* outermost has returned the trace is over.
RECURSIVE Unwind(_)
Unwind(s) ==
    IF s.pc # "trace" THEN s
    ELSE IF Len(s.stack) = 0 THEN [s EXCEPT !.pc = "normalize"]
    ELSE IF Len(Top(s.stack).links) > 0 THEN s
    ELSE Unwind([s EXCEPT !.stack = Pop(@)])

\* The link the innermost call dispatches next, and the state once it is taken
CurrentLink(s) == Head(Top(s.stack).links)
CurrentNode(s) == Top(s.stack).node
TakeLink(s) == [s EXCEPT !.stack[Len(s.stack)].links = Tail(@)]

\* The category from the node type alone, without the `model` input heuristic
ModelCategory_TypeOnly(node) ==
    IF LET model_type == Lower(GetType(node, K_UnknownModelSource))
       IN  \E i \in 1..Len(lora_loader_keywords) :
               Contains(model_type, lora_loader_keywords[i])
    THEN "LoRA Models"
    ELSE "Base Models"

\* MODEL branch: the category of an enabled source with widgets_values
ModelCategory(node) ==
    IF LET model_type == Lower(GetType(node, K_UnknownModelSource))
       IN  \E i \in 1..Len(lora_loader_keywords) :
               Contains(model_type, lora_loader_keywords[i])
    THEN "LoRA Models"
    ELSE IF /\ node.has_inputs
            /\ \E i \in 1..Len(node.inputs) :
                   /\ Lower(node.inputs[i].name) = K_model
                   /\ node.inputs[i].type = K_MODEL
    THEN "LoRA Models"
    ELSE "Base Models"

ModelFinding(id, node) ==
    Finding(id, GetType(node, K_UnknownModelSource),
            GetTitle(node, DefaultTitle(id, GetType(node, K_UnknownModelSource))),
            TRUE, "MODEL", TRUE, VList(node.widgets_values), FALSE)

\* The MODEL branch without its check for an existing finding
TraverseModel_NoDedup(s, link) ==
    LET output_node_id == StrOfNat(link[2])
    IN  IF DictHas(s.nodes, output_node_id) /\ DictGet(s.nodes, output_node_id).mode = 0
        THEN LET node == DictGet(s.nodes, output_node_id)
             IN  IF HasWidgets(node)
                 THEN LET category == ModelCategory(node)
                      IN  Enter([s EXCEPT !.identified_inputs =
                                     AppendTo(WithCategory(@, category), category,
                                              ModelFinding(output_node_id, node))],
                                output_node_id)
                 ELSE s
        ELSE Enter(s, output_node_id)

\* MODEL branch of _traverse
TraverseModel(s, link) ==
    LET output_node_id == StrOfNat(link[2])
    IN  IF DictHas(s.nodes, output_node_id) /\ DictGet(s.nodes, output_node_id).mode = 0
        THEN LET node == DictGet(s.nodes, output_node_id)
             IN  IF HasWidgets(node)
                 THEN LET category == ModelCategory(node)
                          ii == WithCategory(s.identified_inputs, category)
                          dup == \E i \in 1..Len(ii[category]) :
                                     /\ ii[category][i].node_id = output_node_id
                                     /\ ii[category][i].has_type
                                     /\ ii[category][i].type = link[6]
                      IN  Enter([s EXCEPT !.identified_inputs =
                                     IF dup THEN ii
                                     ELSE AppendTo(ii, category,
                                                   ModelFinding(output_node_id, node))],
                                output_node_id)
                 ELSE s
        ELSE Enter(s, output_node_id)

ParameterFinding(id, node, link_type) ==
    Finding(id, GetType(node, K_UnknownSource),
            GetTitle(node, DefaultTitle(id, GetType(node, K_UnknownSource))),
            TRUE, link_type, TRUE, VList(node.widgets_values), FALSE)

\* The parameter branch without the _traverse of a disabled or missing source
TraverseParameter_SkipDisabled(s, link) ==
    LET output_node_id == StrOfNat(link[2])
    IN  IF DictHas(s.nodes, output_node_id) /\ DictGet(s.nodes, output_node_id).mode = 0
        THEN LET node == DictGet(s.nodes, output_node_id)
             IN  IF HasWidgets(node)
                 THEN Enter([s EXCEPT !.identified_inputs =
                                 AppendTo(WithCategory(@, link[6]), link[6],
                                          ParameterFinding(output_node_id, node, link[6]))],
                            output_node_id)
                 ELSE Enter(s, output_node_id)
        ELSE s

\* VAE, LATENT, CFG, SAMPLER, SCHEDULER, DENOISE, STEPS branch of _traverse
TraverseParameter(s, link) ==
    LET output_node_id == StrOfNat(link[2])
    IN  IF DictHas(s.nodes, output_node_id) /\ DictGet(s.nodes, output_node_id).mode = 0
        THEN LET node == DictGet(s.nodes, output_node_id)
             IN  IF HasWidgets(node)
                 THEN Enter([s EXCEPT !.identified_inputs =
                                 AppendTo(WithCategory(@, link[6]), link[6],
                                          ParameterFinding(output_node_id, node, link[6]))],
                            output_node_id)
                 ELSE Enter(s, output_node_id)
        ELSE Enter(s, output_node_id)

\* The last branch of _traverse: any other link type
TraverseOther(s, link) == Enter(s, StrOfNat(link[2]))

-----------------------------------------------------------------------------
(* Text Resolver: _handle_conditioning_link and its _trace_prompt_source *)

\* The category from the input name as written, not lower-cased
PromptCategory_CaseSensitive(node_data, input_index) ==
    LET input_name ==
            IF node_data.has_inputs /\ input_index < Len(node_data.inputs)
            THEN node_data.inputs[input_index + 1].name
            ELSE <<>>
    IN  IF Len(input_name) > 0 /\ Contains(input_name, K_positive) THEN "Positive Prompts"
        ELSE IF Len(input_name) > 0 /\ Contains(input_name, K_negative)
        THEN "Negative Prompts"
        ELSE ""

\* The prompt category of a CONDITIONING link into node_data at input_index;
\* "" stands for None.
PromptCategory(node_data, input_index) ==
    LET input_name ==
            IF node_data.has_inputs /\ input_index < Len(node_data.inputs)
            THEN Lower(node_data.inputs[input_index + 1].name)
            ELSE <<>>
    IN  IF Len(input_name) > 0 /\ Contains(input_name, K_positive) THEN "Positive Prompts"
        ELSE IF Len(input_name) > 0 /\ Contains(input_name, K_negative)
        THEN "Negative Prompts"
        ELSE ""

\* "concat" in source_node_type.lower()
IsConcat(node) == Contains(Lower(GetType(node, K_UnknownSource)), K_concat)

RECURSIVE StrAll(_)
StrAll(vals) ==
    IF Len(vals) = 0 THEN <<>>
    ELSE (IF IsTextScalar(Head(vals)) THEN <<StrOfValue(Head(vals))>> ELSE <<>>)
         \o StrAll(Tail(vals))

\* The parts of a concat node with its own widgets_values before the traced parts
ReturnedParts_WidgetsFirst(node, frame) ==
    IF IsConcat(node)
    THEN (IF HasWidgets(node) THEN StrAll(node.widgets_values) ELSE <<>>) \o frame.parts
    ELSE IF ~frame.found /\ HasWidgets(node)
    THEN Append(frame.parts, StrOfValue(node.widgets_values[1]))
    ELSE frame.parts

\* What a call of _trace_prompt_source returns once its links are scanned:
\* the parts traced upstream, then the node's own widgets_values (all of them
\* for a concat node; the first one, and only if nothing was traced, otherwise).
ReturnedParts(node, frame) ==
    IF IsConcat(node)
    THEN frame.parts \o (IF HasWidgets(node) THEN StrAll(node.widgets_values) ELSE <<>>)
    ELSE IF ~frame.found /\ HasWidgets(node)
    THEN Append(frame.parts, StrOfValue(node.widgets_values[1]))
    ELSE frame.parts

\* _trace_prompt_source without the return for a disabled node
PromptEnter_WalkDisabled(s, id) ==
    IF Overflows(s) THEN [s EXCEPT !.pc = "overflow"]
    ELSE IF id \in s.prompt_visited THEN s
    ELSE LET s1 == [s EXCEPT !.prompt_visited = @ \cup {id}]
         IN  IF ~DictHas(s.nodes, id) THEN s1
             ELSE LET incoming == get_node_inputs_from_links(id, s.links)
                  IN  IF ~incoming.ok THEN [s1 EXCEPT !.pc = "raised"]
                      ELSE [s1 EXCEPT !.pstack =
                                Append(@, [node |-> id, links |-> incoming.links,
                                           parts |-> <<>>, found |-> FALSE])]

\* The call _trace_prompt_source(id) up to its loop over the incoming links
PromptEnter(s, id) ==
    IF Overflows(s) THEN [s EXCEPT !.pc = "overflow"]
    ELSE IF id \in s.prompt_visited THEN s
    ELSE LET s1 == [s EXCEPT !.prompt_visited = @ \cup {id}]
         IN  IF ~DictHas(s.nodes, id) \/ DictGet(s.nodes, id).mode # 0 THEN s1
             ELSE LET incoming == get_node_inputs_from_links(id, s.links)
                  IN  IF ~incoming.ok THEN [s1 EXCEPT !.pc = "raised"]
                      ELSE [s1 EXCEPT !.pstack =
                                Append(@, [node |-> id, links |-> incoming.links,
                                           parts |-> <<>>, found |-> FALSE])]

PromptFinding(id, nodes, final_prompt) ==
    Finding(id,
            IF DictHas(nodes, id) THEN GetType(DictGet(nodes, id), K_UnknownType)
            ELSE K_UnknownType,
            IF DictHas(nodes, id) THEN GetTitle(DictGet(nodes, id), K_Node \o id)
            ELSE K_Node \o id,
            TRUE, "TEXT", TRUE, VStr(final_prompt), FALSE)

\* The end of _handle_conditioning_link with the category created before
\* `if all_prompt_parts`
RecordPrompt_CategoryFirst(ii, category, output_node_id, nodes, all_prompt_parts) ==
    LET final_prompt == Strip(JoinSpace(all_prompt_parts))
        ii1 == WithCategory(ii, category)
    IN  IF \/ Len(all_prompt_parts) = 0
           \/ \E i \in 1..Len(ii1[category]) : ii1[category][i].value = VStr(final_prompt)
        THEN ii1
        ELSE AppendTo(ii1, category, PromptFinding(output_node_id, nodes, final_prompt))

\* The end of _handle_conditioning_link without the test for an equal value
RecordPrompt_NoDedup(ii, category, output_node_id, nodes, all_prompt_parts) ==
    IF Len(all_prompt_parts) = 0 THEN ii
    ELSE AppendTo(WithCategory(ii, category), category,
                  PromptFinding(output_node_id, nodes,
                                Strip(JoinSpace(all_prompt_parts))))

\* The end of _handle_conditioning_link: all_prompt_parts is known
RecordPrompt(ii, category, output_node_id, nodes, all_prompt_parts) ==
    IF Len(all_prompt_parts) = 0 THEN ii
    ELSE LET final_prompt == Strip(JoinSpace(all_prompt_parts))
             ii1 == WithCategory(ii, category)
         IN  IF \E i \in 1..Len(ii1[category]) :
                    ii1[category][i].value = VStr(final_prompt)
             THEN ii1
             ELSE AppendTo(ii1, category,
                           PromptFinding(output_node_id, nodes, final_prompt))

FinishConditioning(s, all_prompt_parts) ==
    [s EXCEPT !.identified_inputs =
                  RecordPrompt(@, s.category, s.cond_source, s.nodes, all_prompt_parts),
              !.pc = "trace", !.category = "", !.cond_source = <<>>,
              !.pstack = <<>>]

\* traced_parts returned to the calling frame
Deliver(nodes, frame, traced_parts) ==
    IF Len(traced_parts) = 0 THEN frame
    ELSE [frame EXCEPT !.parts = @ \o traced_parts,
                       !.found = @ \/ ~IsConcat(DictGet(nodes, frame.node))]

\* The calls of _trace_prompt_source that have scanned all their links return;
\* when the outermost has returned the handler records the prompt.
RECURSIVE PromptUnwind(_)
PromptUnwind(s) ==
    IF s.pc # "resolve" THEN s
    ELSE IF Len(s.pstack) = 0 THEN FinishConditioning(s, <<>>)
    ELSE IF Len(Top(s.pstack).links) > 0 THEN s
    ELSE LET frame == Top(s.pstack)
             parts == ReturnedParts(DictGet(s.nodes, frame.node), frame)
             rest == Pop(s.pstack)
         IN  IF Len(rest) = 0 THEN FinishConditioning(s, parts)
             ELSE PromptUnwind([s EXCEPT !.pstack =
                      [rest EXCEPT ![Len(rest)] = Deliver(s.nodes, @, parts)]])

\* _handle_conditioning_link without `prompt_visited = set()`: the set of the
\* call before is used again
HandleConditioning_StaleVisited(s, link) ==
    LET category == PromptCategory(DictGet(s.nodes, CurrentNode(s)), link[5])
        output_node_id == StrOfNat(link[2])
    IN  IF category = "" THEN s
        ELSE PromptUnwind(PromptEnter(
                 [s EXCEPT !.pc = "resolve", !.category = category,
                           !.cond_source = output_node_id, !.pstack = <<>>],
                 output_node_id))

\* CONDITIONING branch of _traverse: _handle_conditioning_link up to the first
\* link scanned by _trace_prompt_source
HandleConditioning(s, link) ==
    LET category == PromptCategory(DictGet(s.nodes, CurrentNode(s)), link[5])
        output_node_id == StrOfNat(link[2])
    IN  IF category = "" THEN s
        ELSE PromptUnwind(PromptEnter(
                 [s EXCEPT !.pc = "resolve", !.category = category,
                           !.cond_source = output_node_id,
                           !.prompt_visited = {}, !.pstack = <<>>],
                 output_node_id))

\* One iteration of the loop of _trace_prompt_source over the incoming links
ScanPromptLink(s) ==
    LET link == Head(Top(s.pstack).links)
        s1 == [s EXCEPT !.pstack[Len(s.pstack)].links = Tail(@)]
    IN  PromptUnwind(IF link[6] \in TextLinkTypes
                     THEN PromptEnter(s1, StrOfNat(link[2]))
                     ELSE s1)

-----------------------------------------------------------------------------
(* Result Normalizer *)

\* The rewrite without os.path.basename
ProcessItem_NoBasename(category, item) ==
    IF item.has_value /\ item.value.k = "list" /\ Len(item.value.l) = 1
    THEN [item EXCEPT !.value = item.value.l[1]]
    ELSE item

\* The rewrite of item['value'] in process_workflow_metadata
ProcessItem(category, item) ==
    IF item.has_value /\ item.value.k = "list" /\ Len(item.value.l) = 1
    THEN LET value_to_process == item.value.l[1]
         IN  IF value_to_process.k = "str" /\ category \in FilenameCategories
             THEN [item EXCEPT !.value = VStr(Basename(value_to_process.s))]
             ELSE [item EXCEPT !.value = value_to_process]
    ELSE item

\* The loop without the node_ids set: every item is kept
RECURSIVE ProcessItems_KeepAll(_, _, _, _, _)
ProcessItems_KeepAll(category, items, i, node_ids, processed_items) ==
    IF i > Len(items) THEN [processed |-> processed_items, items |-> items]
    ELSE LET item == ProcessItem(category, items[i])
         IN  ProcessItems_KeepAll(category, [items EXCEPT ![i] = item], i + 1,
                                  node_ids, Append(processed_items, item))

\* The loop over one category's items: processed_items, and the items list
\* itself, whose kept items are rewritten in place.
RECURSIVE ProcessItems(_, _, _, _, _)
ProcessItems(category, items, i, node_ids, processed_items) ==
    IF i > Len(items) THEN [processed |-> processed_items, items |-> items]
    ELSE IF items[i].node_id \in node_ids
    THEN ProcessItems(category, items, i + 1, node_ids, processed_items)
    ELSE LET item == ProcessItem(category, items[i])
         IN  ProcessItems(category, [items EXCEPT ![i] = item], i + 1,
                          node_ids \cup {items[i].node_id},
                          Append(processed_items, item))

process_workflow_metadata(raw_metadata) ==
    [category \in DOMAIN raw_metadata |->
        ProcessItems(category, raw_metadata[category], 1, {}, <<>>).processed]

\* raw_metadata after the call: its items are the objects that were rewritten
RawAfterProcess(raw_metadata) ==
    [category \in DOMAIN raw_metadata |->
        ProcessItems(category, raw_metadata[category], 1, {}, <<>>).items]

\* A finding of the MODEL and parameter branches has the node's widgets_values
\* list itself as its value: the same object, not a copy.
AliasesWidgets(item) ==
    item.has_type /\ item.type # "TEXT" /\ item.has_value /\ item.value.k = "list"

\* The list object item['value'] once process_workflow_metadata has handled
\* the item: the list is read and item['value'] is bound to another object
ValueObjectAfterProcess_InPlace(category, value_list) ==
    IF Len(value_list) = 1 /\ value_list[1].k = "str" /\ category \in FilenameCategories
    THEN <<VStr(Basename(value_list[1].s))>>
    ELSE value_list

ValueObjectAfterProcess(category, value_list) == value_list

\* widgets_values of the node under key after process_workflow_metadata(raw):
\* every kept finding whose value is that list has been handled
RECURSIVE WidgetsAfterProcess(_, _)
WidgetsAfterProcess(categories, widgets_values) ==
    IF categories = {} THEN widgets_values
    ELSE LET c == CHOOSE x \in categories : TRUE
         IN  WidgetsAfterProcess(categories \ {c},
                                 ValueObjectAfterProcess(c, widgets_values))

\* The workflow after process_workflow_metadata(raw)
WorkflowAfterProcess(w, raw) ==
    LET aliasing(key) ==
            {c \in DOMAIN raw : \E i \in 1..Len(raw[c]) :
                 raw[c][i].node_id = key /\ AliasesWidgets(raw[c][i])}
        after(key, rec) ==
            [rec EXCEPT !.widgets_values = WidgetsAfterProcess(aliasing(key), @)]
    IN  [w EXCEPT
           !.nodes_dict = [i \in 1..Len(@) |->
                              [@[i] EXCEPT !.rec = after(w.nodes_dict[i].key, @)]],
           !.nodes_list = [i \in 1..Len(@) |->
                              IF @[i].has_id THEN after(StrOfNat(@[i].id), @[i])
                              ELSE @[i]]]

-----------------------------------------------------------------------------
(* The analysed workflows *)

T_SaveImage == <<"S","a","v","e","I","m","a","g","e">>
T_Ckpt == <<"C","k","p","t">>
T_MyLoRA == <<"M","y","L","o","R","A">>
T_Apply == <<"A","p","p","l","y">>
T_Concat == <<"C","o","n","c","a","t">>
T_Unet == <<"U","n","e","t">>
D_IMAGE == <<"I","M","A","G","E">>
D_COND == <<"C","O","N","D">>

\* Input slots of the sink: 0 images, 1 Positive, 2 negative
SinkInputs == <<InputDef(<<"i","m","a","g","e","s">>, D_IMAGE),
                InputDef(<<"P","o","s","i","t","i","v","e">>, D_COND),
                InputDef(K_negative, D_COND)>>

\* Input slots of a model-consuming node: 0 Model, 1 positive
ApplyInputs == <<InputDef(<<"M","o","d","e","l">>, K_MODEL),
                 InputDef(K_positive, D_COND)>>

SinkNode(id) == NodeRec(TRUE, id, TRUE, T_SaveImage, FALSE, <<>>, 0,
                        TRUE, SinkInputs, FALSE, <<>>)

\* The records a non-sink node is drawn from: a checkpoint loader, a LoRA
\* loader, a model-consuming node with a numeric parameter, a concatenation
\* node, a disabled loader, a bare node (no type, no widgets_values), and a
\* loader whose one parameter is itself a list.
NodeTemplates(id) ==
    { NodeRec(TRUE, id, TRUE, T_Ckpt, FALSE, <<>>, 0, FALSE, <<>>,
              TRUE, <<VStr(<<"d","/","m">>)>>),
      NodeRec(TRUE, id, TRUE, T_MyLoRA, FALSE, <<>>, 0, TRUE, <<InputDef(K_model, K_MODEL)>>,
              TRUE, <<VStr(<<"l">>), VNum(1)>>),
      NodeRec(TRUE, id, TRUE, T_Apply, FALSE, <<>>, 0, TRUE, ApplyInputs,
              TRUE, <<VNum(7)>>),
      NodeRec(TRUE, id, TRUE, T_Concat, TRUE, <<"c">>, 0, FALSE, <<>>,
              TRUE, <<VStr(<<",", " ", "m", " ">>), VList(<<VNum(2)>>)>>),
      NodeRec(TRUE, id, TRUE, T_Ckpt, FALSE, <<>>, 4, FALSE, <<>>,
              TRUE, <<VStr(<<"x">>)>>),
      NodeRec(TRUE, id, FALSE, <<>>, FALSE, <<>>, 0, TRUE, <<>>, FALSE, <<>>),
      NodeRec(TRUE, id, TRUE, T_Unet, FALSE, <<>>, 0, FALSE, <<>>,
              TRUE, <<VList(<<VStr(<<"d","/","m">>)>>)>>) }

\* The links a links list is drawn from.  Node 1 is the sink, 9 is no node.
LinkPool ==
    { Link(1, 2, 0, 1, 1, "CONDITIONING"),
      Link(2, 2, 0, 1, 2, "CONDITIONING"),
      Link(3, 3, 0, 1, 1, "CONDITIONING"),
      Link(4, 2, 0, 1, 0, "MODEL"),
      Link(5, 3, 0, 2, 0, "MODEL"),
      Link(6, 2, 1, 1, 0, "VAE"),
      Link(7, 3, 0, 2, 0, "STRING"),
      Link(8, 2, 0, 3, 0, "STRING"),
      Link(9, 9, 0, 2, 0, "VAE"),
      Link(10, 9, 0, 1, 1, "CONDITIONING"),
      Link(11, 9, 0, 2, 0, "MODEL"),
      Link(12, 9, 0, 1, 0, "IMAGE"),
      Link(13, 2, 2, 1, 0, "VAE"),
      Link(14, 3, 0, 1, 0, "MODEL"),
      Link(15, 3, 0, 2, 0, "CONDITIONING"),
      Link(16, 3, 0, 9, 0, "MODEL"),
      Link(17, 2, 0, 2, 0, "STRING") }

\* The links lists over a pool: a workflow's links carry distinct link numbers
\* in increasing order, so a links list is a subset of the pool in that order.
RECURSIVE SortedLinks(_)
SortedLinks(S) ==
    IF S = {} THEN <<>>
    ELSE LET first == CHOOSE l \in S : \A m \in S : l[1] <= m[1]
         IN  <<first>> \o SortedLinks(S \ {first})

LinkLists(pool, n) == {SortedLinks(S) : S \in {T \in SUBSET pool : Cardinality(T) <= n}}

\* A workflow: the parsed JSON value handed to analyze_comfyui_workflow
Workflow(isd, form, nd, nl, hl, ls) ==
    [is_dict |-> isd, nodes_form |-> form, nodes_dict |-> nd, nodes_list |-> nl,
     has_links |-> hl, links |-> ls]

Entry(key, rec) == [key |-> key, rec |-> rec]

\* The records of a node that consumes no model
UpstreamTemplates(id) == {n \in NodeTemplates(id) : ModelCategory(n) = "Base Models"}

\* Three nodes keyed "1", "2", "3" under the sink "1", with a links list
GraphWorkflow(n2, n3, ls) ==
    Workflow(TRUE, "dict",
             <<Entry(<<"1">>, SinkNode(1)), Entry(<<"2">>, n2), Entry(<<"3">>, n3)>>,
             <<>>, TRUE, ls)

\* The other shapes of the input: not a mapping; `nodes` of another type,
\* absent or empty; `links` absent or empty; no save node; a save node that is
\* disabled or has parameters; a save node under a key that is not a number;
\* `nodes` as a list, one record without 'id'; a node of type "Save Image"
\* without `inputs` before or after the save node with an image input.
ShapeWorkflows ==
    LET ck == CHOOSE n \in NodeTemplates(2) : n.type = T_Ckpt /\ n.mode = 0
        bare(id) == CHOOSE n \in NodeTemplates(id) : ~n.has_type
        noid == [ck EXCEPT !.has_id = FALSE]
        plain == NodeRec(TRUE, 4, TRUE, K_SaveImage, FALSE, <<>>, 0,
                         FALSE, <<>>, FALSE, <<>>)
        noimage == {[plain EXCEPT !.has_inputs = TRUE],
                    [plain EXCEPT !.has_inputs = TRUE,
                                  !.inputs = <<InputDef(<<"i","n">>, D_COND)>>]}
        two == <<Entry(<<"1">>, SinkNode(1)), Entry(<<"2">>, ck)>>
        one == {Link(4, 2, 0, 1, 0, "MODEL")}
        up == {Link(5, 3, 0, 2, 0, "MODEL")}
    IN  {Workflow(FALSE, "absent", <<>>, <<>>, FALSE, <<>>)}
        \cup {Workflow(TRUE, form, <<>>, <<>>, TRUE, ls) :
                form \in {"other", "absent", "dict", "list"}, ls \in LinkLists(one, 1)}
        \cup {Workflow(TRUE, "dict", two, <<>>, hl, <<>>) : hl \in BOOLEAN}
        \cup {Workflow(TRUE, "dict", <<Entry(<<"2">>, ck), Entry(<<"3">>, bare(3))>>,
                       <<>>, TRUE, ls) : ls \in LinkLists(up, 1)}
        \cup {Workflow(TRUE, "dict",
                       <<Entry(<<"1">>, sink), Entry(<<"2">>, ck), Entry(<<"3">>, bare(3))>>,
                       <<>>, TRUE, ls) :
                sink \in {[SinkNode(1) EXCEPT !.mode = 2],
                          [SinkNode(1) EXCEPT !.has_widgets = TRUE,
                                              !.widgets_values = <<VStr(<<"o">>)>>]},
                ls \in LinkLists(up, 1) \ {<<>>}}
        \cup {Workflow(TRUE, "dict", <<Entry(<<"a">>, SinkNode(1)), Entry(<<"2">>, ck)>>,
                       <<>>, TRUE, ls) : ls \in LinkLists(LinkPool, 1)}
        \cup {Workflow(TRUE, "list", <<>>, <<SinkNode(1), noid, n2, bare(3)>>, TRUE, ls) :
                n2 \in NodeTemplates(2), ls \in LinkLists(LinkPool, 1)}
        \cup {Workflow(TRUE, "dict", nd, <<>>, TRUE, SortedLinks(one)) :
                nd \in {<<Entry(<<"4">>, plain), Entry(<<"1">>, SinkNode(1)),
                          Entry(<<"2">>, ck)>>,
                        <<Entry(<<"1">>, SinkNode(1)), Entry(<<"4">>, plain),
                          Entry(<<"2">>, ck)>>}}
        \cup {Workflow(TRUE, "dict", <<Entry(<<"4">>, sink), Entry(<<"2">>, ck)>>,
                       <<>>, TRUE, SortedLinks(one)) : sink \in {plain} \cup noimage}

-----------------------------------------------------------------------------
(* The state machine *)

VARIABLES
    workflow,           \* the argument of analyze_comfyui_workflow
    pc,                 \* "start", "trace", "resolve", "normalize", "done", or
                        \* "raised" (ValueError), "overflow" (RecursionError)
    start_node_id,      \* image_save_node_id
    identified_inputs,  \* category -> findings
    visited,            \* visited of trace_workflow_inputs
    stack,              \* active calls of _traverse
    category,           \* category of the running _handle_conditioning_link
    cond_source,        \* its output_node_id
    prompt_visited,     \* prompt_visited of the latest _handle_conditioning_link
    pstack,             \* active calls of its _trace_prompt_source
    result              \* what analyze_comfyui_workflow returns

vars == <<workflow, pc, start_node_id, identified_inputs, visited,
          stack, category, cond_source, prompt_visited, pstack, result>>

\* The canonical node mapping and the links of trace_workflow_inputs: both are
\* computed from the workflow on entry and never assigned again.
nodes == NormalizeNodes(workflow).nodes
links == GetLinks(workflow)

NoResult == [kind |-> "unset", map |-> EmptyMap]
ReturnNone == [kind |-> "None", map |-> EmptyMap]
ReturnMap(m) == [kind |-> "map", map |-> m]

\* The state of trace_workflow_inputs as one record, and back
State ==
    [pc |-> pc, nodes |-> nodes, links |-> links,
     identified_inputs |-> identified_inputs, visited |-> visited, stack |-> stack,
     category |-> category, cond_source |-> cond_source,
     prompt_visited |-> prompt_visited, pstack |-> pstack]

Becomes(s) ==
    /\ pc' = s.pc
    /\ identified_inputs' = s.identified_inputs
    /\ visited' = s.visited
    /\ stack' = s.stack
    /\ category' = s.category
    /\ cond_source' = s.cond_source
    /\ prompt_visited' = s.prompt_visited
    /\ pstack' = s.pstack

\* trace_workflow_inputs up to the first link dispatched by _traverse(start)
TraceInit(nds, lks, start) ==
    Unwind(Enter([pc |-> "trace", nodes |-> nds, links |-> lks,
                  identified_inputs |-> EmptyMap, visited |-> {}, stack |-> <<>>,
                  category |-> "", cond_source |-> <<>>,
                  prompt_visited |-> {}, pstack |-> <<>>], start))

\* One iteration of the loop of _traverse over the incoming links
DispatchLink(s) ==
    LET link == CurrentLink(s)
        s1 == TakeLink(s)
    IN  Unwind(IF link[6] = "CONDITIONING" THEN HandleConditioning(s1, link)
               ELSE IF link[6] = "MODEL" THEN TraverseModel(s1, link)
               ELSE IF link[6] \in ParameterLinkTypes THEN TraverseParameter(s1, link)
               ELSE TraverseOther(s1, link))

\* Does analyze_comfyui_workflow return None before tracing?
AnalysisFails(w) ==
    \/ ~w.is_dict
    \/ LET nodes_dict == NormalizeNodes(w)
           save == find_image_save_node(nodes_dict.nodes)
       IN  \/ ~nodes_dict.ok
           \/ Len(nodes_dict.nodes) = 0
           \/ Len(GetLinks(w)) = 0
           \/ ~save.found
           \/ Len(save.id) = 0

\* The state before analyze_comfyui_workflow(w) runs
InitWith(w) ==
    /\ workflow = w
    /\ pc = "start"
    /\ start_node_id = <<>>
    /\ identified_inputs = EmptyMap
    /\ visited = {}
    /\ stack = <<>>
    /\ category = ""
    /\ cond_source = <<>>
    /\ prompt_visited = {}
    /\ pstack = <<>>
    /\ result = NoResult

Init ==
    \/ \E n2 \in NodeTemplates(2), n3 \in UpstreamTemplates(3),
          ls \in LinkLists(LinkPool, MaxLinks) : InitWith(GraphWorkflow(n2, n3, ls))
    \/ \E w \in ShapeWorkflows : InitWith(w)

\* analyze_comfyui_workflow returns None
AnalyzeFail ==
    /\ pc = "start"
    /\ AnalysisFails(workflow)
    /\ pc' = "done"
    /\ result' = ReturnNone
    /\ UNCHANGED <<workflow, start_node_id, identified_inputs, visited,
                   stack, category, cond_source, prompt_visited, pstack>>

\* analyze_comfyui_workflow finds the save node and calls trace_workflow_inputs
AnalyzeTrace ==
    /\ pc = "start"
    /\ ~AnalysisFails(workflow)
    /\ start_node_id' = find_image_save_node(nodes).id
    /\ \E s \in {TraceInit(nodes, links, start_node_id')} : Becomes(s)
    /\ UNCHANGED <<workflow, result>>

DispatchConditioning ==
    /\ pc = "trace"
    /\ CurrentLink(State)[6] = "CONDITIONING"
    /\ \E s \in {DispatchLink(State)} : Becomes(s)
    /\ UNCHANGED <<workflow, start_node_id, result>>

DispatchModel ==
    /\ pc = "trace"
    /\ CurrentLink(State)[6] = "MODEL"
    /\ \E s \in {DispatchLink(State)} : Becomes(s)
    /\ UNCHANGED <<workflow, start_node_id, result>>

DispatchParameter ==
    /\ pc = "trace"
    /\ CurrentLink(State)[6] \in ParameterLinkTypes
    /\ \E s \in {DispatchLink(State)} : Becomes(s)
    /\ UNCHANGED <<workflow, start_node_id, result>>

DispatchOther ==
    /\ pc = "trace"
    /\ CurrentLink(State)[6] \notin {"CONDITIONING", "MODEL"} \cup ParameterLinkTypes
    /\ \E s \in {DispatchLink(State)} : Becomes(s)
    /\ UNCHANGED <<workflow, start_node_id, result>>

\* _trace_prompt_source scans one incoming link
ResolveLink ==
    /\ pc = "resolve"
    /\ \E s \in {Unwind(ScanPromptLink(State))} : Becomes(s)
    /\ UNCHANGED <<workflow, start_node_id, result>>

\* process_workflow_metadata(identified_inputs) and the return
Normalize ==
    /\ pc = "normalize"
    /\ result' = ReturnMap(process_workflow_metadata(identified_inputs))
    /\ identified_inputs' = RawAfterProcess(identified_inputs)
    /\ workflow' = WorkflowAfterProcess(workflow, identified_inputs)
    /\ pc' = "done"
    /\ UNCHANGED <<start_node_id, visited, stack, category,
                   cond_source, prompt_visited, pstack>>

Next ==
    \/ AnalyzeFail
    \/ AnalyzeTrace
    \/ DispatchConditioning
    \/ DispatchModel
    \/ DispatchParameter
    \/ DispatchOther
    \/ ResolveLink
    \/ Normalize

Spec == Init /\ [][Next]_vars

-----------------------------------------------------------------------------
(* The trace as a function of its inputs *)

RECURSIVE RunTrace(_)
RunTrace(s) ==
    IF s.pc = "trace" THEN RunTrace(DispatchLink(s))
    ELSE IF s.pc = "resolve" THEN RunTrace(Unwind(ScanPromptLink(s)))
    ELSE s

\* identified_inputs returned by trace_workflow_inputs(start, {nodes, links})
TraceOf(nds, lks, start) == RunTrace(TraceInit(nds, lks, start)).identified_inputs

\* What _handle_conditioning_link adds to an empty identified_inputs for a link
\* from output_node_id into a slot of category cat
RECURSIVE RunPrompt(_)
RunPrompt(s) == IF s.pc = "resolve" THEN RunPrompt(ScanPromptLink(s)) ELSE s

PromptOf(nds, lks, output_node_id, cat) ==
    RunPrompt(PromptUnwind(PromptEnter(
        [pc |-> "resolve", nodes |-> nds, links |-> lks,
         identified_inputs |-> EmptyMap, visited |-> {}, stack |-> <<>>,
         category |-> cat, cond_source |-> output_node_id,
         prompt_visited |-> {}, pstack |-> <<>>], output_node_id))).identified_inputs

-----------------------------------------------------------------------------
(* Claims *)

Finished == pc \in {"done", "raised"}

\* Node ids, category contents
NodeIds(items) == {items[i].node_id : i \in 1..Len(items)}
NoDuplicateIds(items) ==
    \A i, j \in 1..Len(items) : items[i].node_id = items[j].node_id => i = j

HasLink(num) == \E i \in 1..Len(links) : links[i][1] = num

\* The ids a walk can meet: the node keys and the sources of the links
AllIds == {nodes[i].key : i \in 1..Len(nodes)} \cup {StrOfNat(links[i][2]) : i \in 1..Len(links)}

RECURSIVE RemainingLinks(_)
RemainingLinks(stk) ==
    IF Len(stk) = 0 THEN 0 ELSE Len(Head(stk).links) + RemainingLinks(Tail(stk))

\* Ids not yet marked, then links not yet taken, as one number
WalkMeasure(seen, stk) ==
    Cardinality(AllIds \ seen) * (Len(links) + 1) + RemainingLinks(stk)

WalkBound == (Cardinality(AllIds) + 1) * (Len(links) + 1)

\* What is left to do: nothing once the analysis has ended, the normalisation,
\* or the trace (ids not yet visited, links not yet dispatched) with the
\* running prompt resolution (ids not yet in prompt_visited, links not yet
\* scanned)
Measure(p, seen, stk, pseen, pstk) ==
    IF p \in {"done", "raised", "overflow"} THEN 0
    ELSE IF p = "normalize" THEN 1
    ELSE IF p = "start" THEN 2 + (WalkBound + 1) * WalkBound
    ELSE 2 + WalkMeasure(seen, stk) * WalkBound
           + (IF p = "resolve" THEN WalkMeasure(pseen, pstk) ELSE 0)

\* A step can be taken: some action of Next is enabled
CanStep ==
    \/ pc \in {"start", "normalize"}
    \/ pc = "trace" /\ Len(stack) > 0 /\ Len(Top(stack).links) > 0
    \/ pc = "resolve" /\ Len(pstack) > 0 /\ Len(Top(pstack).links) > 0

\* C1: on every workflow, cyclic or not, the analysis ends, and so does every
\* prompt resolution it starts: until it has returned or raised it can take a
\* step, every step leaves strictly less to do (a natural number), and the
\* recursion limit is never met.
C1_Terminates ==
    /\ [](Finished \/ CanStep)
    /\ [](pc # "overflow")
    /\ [][Measure(pc', visited', stack', prompt_visited', pstack')
            < Measure(pc, visited, stack, prompt_visited, pstack)]_vars

\* An analysis has ended in which the trace came back to node 2 over the link
\* 2 -> 2 and a prompt resolution from node 2 met the same link.
C1_Witness ==
    /\ pc = "done"
    /\ HasLink(1) /\ HasLink(4) /\ HasLink(17)
    /\ DictGet(nodes, <<"2">>).mode = 0
    /\ <<"2">> \in visited

\* The cases in which the claim has the analysis return None: the input is
\* not a mapping, `nodes` is neither a mapping nor a sequence, the node mapping
\* is empty, `links` is empty or absent, or no node is a save node.
NoResultCase ==
    \/ ~workflow.is_dict
    \/ workflow.nodes_form = "other"
    \/ Len(nodes) = 0
    \/ ~workflow.has_links
    \/ Len(workflow.links) = 0
    \/ \A i \in 1..Len(nodes) : ~IsImageSaveNode(nodes[i].rec)

\* C2: the analysis returns None, raising nothing, exactly in the cases of
\* NoResultCase, and a category map in every other case.
C2_NoneExactly ==
    /\ pc \notin {"raised", "overflow"}
    /\ pc = "done" => IF NoResultCase THEN result = ReturnNone ELSE result.kind = "map"

\* C3: with `nodes` a mapping under any keys and a non-empty `links`, the
\* analysis ends in None or in a category map: no error leaves the trace.
C3_NoErrorEscapes ==
    (workflow.is_dict /\ workflow.nodes_form = "dict" /\ Len(links) > 0)
        => /\ pc \notin {"raised", "overflow"}
           /\ pc = "done" => result.kind \in {"None", "map"}

\* A link whose source is no node of the workflow, and one whose target the
\* trace has entered
Dangling(l) == ~DictHas(nodes, StrOfNat(l[2]))
Reached(l) == StrOfNat(l[4]) \in visited /\ DictHas(nodes, StrOfNat(l[4]))

Without(lks, l) == SelectSeq(lks, LAMBDA m : m # l)

\* A category map without the source-node finding of id
WithoutSourceNode(ii, id) ==
    LET kept(c) == IF c = SourceNodesCategory
                   THEN SelectSeq(ii[c], LAMBDA f : f.node_id # id)
                   ELSE ii[c]
    IN  [c \in {x \in DOMAIN ii : Len(kept(x)) > 0} |-> kept(c)]

\* The missing source of a reached link: the analysis goes on to return a map,
\* the missing id has no finding and no call of _traverse or
\* _trace_prompt_source loops over its links
MissingSourceSkipped(l) ==
    LET id == StrOfNat(l[2])
    IN  /\ pc \notin {"raised", "overflow"}
        /\ pc = "done" => result.kind = "map"
        /\ \A c \in DOMAIN identified_inputs : id \notin NodeIds(identified_inputs[c])
        /\ \A i \in 1..Len(stack) : stack[i].node # id
        /\ \A i \in 1..Len(pstack) : pstack[i].node # id

\* C4 as stated: a reached link with a missing source does not stop the
\* analysis, gives no finding, is not descended, and the findings of the trace
\* are those of the trace over the links without it.
C4_DanglingAsAbsent ==
    \A i \in 1..Len(links) :
        (Dangling(links[i]) /\ Reached(links[i])) =>
            /\ MissingSourceSkipped(links[i])
            /\ pc = "normalize" =>
                   identified_inputs = TraceOf(nodes, Without(links, links[i]), start_node_id)

\* C4: a reached link with a missing source does not stop the analysis, gives
\* no finding, is not descended, and the findings of the trace are those of the
\* trace over the links without it, less the source-node finding of the link's
\* target (which has an incoming link with it and may have none without it).
C4_DanglingSkipped ==
    \A i \in 1..Len(links) :
        (Dangling(links[i]) /\ Reached(links[i])) =>
            /\ MissingSourceSkipped(links[i])
            /\ pc = "normalize" =>
                   identified_inputs =
                       WithoutSourceNode(
                           TraceOf(nodes, Without(links, links[i]), start_node_id),
                           StrOfNat(links[i][4]))

\* The trace went from the sink to node 2, over the link 9 -> 2 to the missing
\* node 9, which the link 3 -> 9 enters; node 2 was recorded and a map returned.
C4_Witness ==
    /\ pc = "done"
    /\ result.kind = "map"
    /\ HasLink(4) /\ HasLink(9) /\ HasLink(16)
    /\ <<"9">> \in visited
    /\ "Base Models" \in DOMAIN result.map

\* The items whose node_id no earlier item has, in order
FirstOfEachId(items) ==
    LET first(i) == \A j \in 1..(i - 1) : items[j].node_id # items[i].node_id
        RECURSIVE from(_)
        from(i) == IF i > Len(items) THEN <<>>
                   ELSE (IF first(i) THEN <<items[i]>> ELSE <<>>) \o from(i + 1)
    IN  from(1)

\* C5: in the returned map no category holds two findings of one node_id: each
\* category is the findings of the trace (as rewritten) that are the first of
\* their node_id, in the order of the trace.
C5_NormalizerDedup ==
    (pc = "done" /\ result.kind = "map") =>
        /\ DOMAIN result.map = DOMAIN identified_inputs
        /\ \A c \in DOMAIN result.map :
               /\ NoDuplicateIds(result.map[c])
               /\ result.map[c] = FirstOfEachId(identified_inputs[c])

\* A map was returned in which a category has lost a finding of a repeated id
C5_Witness ==
    /\ pc = "done"
    /\ result.kind = "map"
    /\ \E c \in DOMAIN result.map :
           /\ Len(result.map[c]) < Len(identified_inputs[c])
           /\ Len(result.map[c]) > 0

\* C6 as stated: when the trace is over, no category of identified_inputs holds
\* two findings of one node_id.
C6_NoDuplicatesRaw ==
    pc = "normalize" =>
        \A c \in DOMAIN identified_inputs : NoDuplicateIds(identified_inputs[c])

\* C6: when the trace is over, no category of identified_inputs other than the
\* payload-type categories (VAE, LATENT, CFG, SAMPLER, SCHEDULER, DENOISE,
\* STEPS) holds two findings of one node_id.
C6_NoDuplicatesOutsideParameters ==
    pc = "normalize" =>
        \A c \in DOMAIN identified_inputs \ ParameterLinkTypes :
            NoDuplicateIds(identified_inputs[c])

\* The trace is over; node 3 was met over MODEL links twice, from node 2 and
\* from the sink, and is recorded.
C6_Witness ==
    /\ pc = "normalize"
    /\ HasLink(4) /\ HasLink(5) /\ HasLink(14)
    /\ DictGet(nodes, <<"2">>).mode = 0 /\ HasWidgets(DictGet(nodes, <<"2">>))
    /\ \E c \in DOMAIN identified_inputs : <<"3">> \in NodeIds(identified_inputs[c])

\* The link that the innermost call of _traverse dispatches next, its source id
\* and the node it enters
NextLink == CurrentLink(State)
NextSource == StrOfNat(NextLink[2])
NextTarget == DictGet(nodes, CurrentNode(State))
Dispatching(types) == pc = "trace" /\ NextLink[6] \in types

\* The category the claim gives a CONDITIONING link into slot i of node n
\* ("" for none)
SlotCategory(n, i) ==
    LET name == IF n.has_inputs /\ i + 1 \in 1..Len(n.inputs)
                THEN Lower(n.inputs[i + 1].name) ELSE <<>>
    IN  IF Contains(name, K_positive) THEN "Positive Prompts"
        ELSE IF Contains(name, K_negative) THEN "Negative Prompts"
        ELSE ""

\* ii once the prompt resolved from source id is recorded under category c:
\* nothing is added when no prompt is resolved or c already has its value
WithPrompt(ii, c, id) ==
    LET resolved == PromptOf(nodes, links, id, c)
    IN  IF c \notin DOMAIN resolved THEN ii
        ELSE IF /\ c \in DOMAIN ii
                /\ \E k \in 1..Len(ii[c]) : ii[c][k].value = resolved[c][1].value
        THEN ii
        ELSE AppendTo(WithCategory(ii, c), c, resolved[c][1])

\* C7: a CONDITIONING link into slot i of node N records the prompt resolved
\* from its source under "Positive Prompts" when the lower-cased slot name
\* contains "positive", else under "Negative Prompts" when it contains
\* "negative"; with neither, or no such slot, it changes no category.
C7_ConditioningCategory ==
    /\ [][Dispatching({"CONDITIONING"}) =>
            LET c == SlotCategory(NextTarget, NextLink[5])
            IN  IF c = "" THEN pc' # "resolve" /\ identified_inputs' = identified_inputs
                ELSE IF pc' = "resolve"
                THEN /\ category' = c /\ cond_source' = NextSource
                     /\ identified_inputs' = identified_inputs
                ELSE identified_inputs' = WithPrompt(identified_inputs, c, NextSource)]_vars
    /\ [][(pc = "resolve" /\ pc' # "resolve") =>
            identified_inputs' = WithPrompt(identified_inputs, category, cond_source)]_vars
    /\ [][pc = "resolve" /\ pc' = "resolve" =>
            /\ identified_inputs' = identified_inputs
            /\ category' = category /\ cond_source' = cond_source]_vars

\* A prompt from node 2 was recorded over the link into the sink's slot
\* "Positive", and the link 3 -> 2 into slot 0 of node 2, entered over a MODEL
\* link, was dispatched without a prompt category.
C7_Witness ==
    /\ pc = "done"
    /\ HasLink(1) /\ HasLink(4) /\ HasLink(15)
    /\ <<"2">> \in visited
    /\ DOMAIN result.map \cap {"Positive Prompts", "Negative Prompts"} = {"Positive Prompts"}
    /\ <<"2">> \in NodeIds(result.map["Positive Prompts"])

\* An enabled node of the workflow with non-empty widgets_values
Recordable(id) ==
    /\ DictHas(nodes, id)
    /\ DictGet(nodes, id).mode = 0
    /\ HasWidgets(DictGet(nodes, id))

ModelCategories == {"LoRA Models", "Base Models"}

TypeNamesLoRA(n) ==
    \E i \in 1..Len(lora_loader_keywords) :
        Contains(Lower(GetType(n, K_UnknownModelSource)), lora_loader_keywords[i])

\* The category the claim gives the source n of a MODEL link, an input counting
\* as named `model` when named(name) holds
ClaimedModelCategory(n, named(_)) ==
    IF TypeNamesLoRA(n) THEN "LoRA Models"
    ELSE IF n.has_inputs /\ \E i \in 1..Len(n.inputs) :
                                named(n.inputs[i].name) /\ n.inputs[i].type = K_MODEL
    THEN "LoRA Models"
    ELSE "Base Models"

\* The source of the dispatched link is recorded under c and under no other
\* model category
RecordedOnlyUnder(c) ==
    /\ c \in DOMAIN identified_inputs'
    /\ NextSource \in NodeIds(identified_inputs'[c])
    /\ \A d \in (ModelCategories \ {c}) \cap DOMAIN identified_inputs' :
           NextSource \notin NodeIds(identified_inputs'[d])

\* C8 as stated: the enabled source with widgets_values of a MODEL link is
\* recorded under "LoRA Models" if its type names a LoRA loader or it has an
\* input named exactly model of type MODEL, and under "Base Models" otherwise.
C8_ModelCategoryAsStated ==
    [][(Dispatching({"MODEL"}) /\ Recordable(NextSource)) =>
          RecordedOnlyUnder(ClaimedModelCategory(DictGet(nodes, NextSource),
                                                 LAMBDA name : name = K_model))]_vars

\* C8: the enabled source with widgets_values of a MODEL link is recorded
\* under "LoRA Models" if its type names a LoRA loader or it has an input of
\* type MODEL whose lower-cased name is model, and under "Base Models"
\* otherwise; in the chain sink <- LoRA loader <- checkpoint loader the loader
\* is under "LoRA Models" and the checkpoint under "Base Models".
C8_ModelCategory ==
    [][(Dispatching({"MODEL"}) /\ Recordable(NextSource)) =>
          RecordedOnlyUnder(ClaimedModelCategory(DictGet(nodes, NextSource),
                                                 LAMBDA name : Lower(name) = K_model))]_vars

\* The chain sink <- 2 <- 3 over MODEL links, 2 a LoRA loader and 3 a
\* checkpoint loader, has been analysed.
C8_Witness ==
    /\ pc = "done"
    /\ HasLink(4) /\ HasLink(5)
    /\ DictGet(nodes, <<"2">>).type = T_MyLoRA
    /\ DictGet(nodes, <<"3">>).type = T_Ckpt /\ DictGet(nodes, <<"3">>).mode = 0
    /\ DOMAIN result.map = ModelCategories
    /\ NodeIds(result.map["LoRA Models"]) = {<<"2">>}
    /\ NodeIds(result.map["Base Models"]) = {<<"3">>}

\* C9: a link of payload type VAE, LATENT, CFG, SAMPLER, SCHEDULER, DENOISE or
\* STEPS appends one finding of its source to the category of that name if the
\* source is an enabled node with widgets_values, and leaves that category as
\* it is otherwise; either way _traverse is then called on the source, which
\* becomes visited and, when new and with incoming links, the innermost call.
C9_ParameterLinks ==
    [][Dispatching(ParameterLinkTypes) =>
          LET t == NextLink[6]
              before == IF t \in DOMAIN identified_inputs
                        THEN identified_inputs[t] ELSE <<>>
              after == IF t \in DOMAIN identified_inputs'
                       THEN identified_inputs'[t] ELSE <<>>
              incoming == get_node_inputs_from_links(NextSource, links).links
          IN  /\ IF Recordable(NextSource)
                 THEN /\ t \in DOMAIN identified_inputs'
                      /\ after = Append(before, ParameterFinding(NextSource,
                                                    DictGet(nodes, NextSource), t))
                 ELSE /\ after = before
                      /\ t \in DOMAIN identified_inputs' <=> t \in DOMAIN identified_inputs
              /\ NextSource \in visited'
              /\ (NextSource \notin visited /\ DictHas(nodes, NextSource)
                    /\ Len(incoming) > 0)
                     => /\ Len(stack') > 0
                        /\ Top(stack').node = NextSource]_vars

\* Node 2 was recorded over a VAE link into the sink, and the VAE link 9 -> 2
\* from the missing node 9 led the trace to node 9.
C9_Witness ==
    /\ pc = "done"
    /\ HasLink(6) /\ HasLink(9)
    /\ "VAE" \in DOMAIN result.map
    /\ <<"2">> \in NodeIds(result.map["VAE"])
    /\ <<"9">> \in visited

\* C10: when no link has the save node as its target, the trace records the
\* save node under "Source Nodes (No Parameters)", its only finding, if the
\* node is enabled with no widgets_values, and records nothing if it is
\* disabled or has widgets_values.
C10_SinkAlone ==
    (/\ pc \in {"normalize", "done", "raised", "overflow"}
     /\ result.kind # "None"
     /\ \A i \in 1..Len(links) : StrOfNat(links[i][4]) # start_node_id)
        => LET sink == DictGet(nodes, start_node_id)
           IN  /\ pc \notin {"raised", "overflow"}
               /\ identified_inputs =
                      IF sink.mode = 0 /\ ~HasWidgets(sink)
                      THEN [c \in {SourceNodesCategory} |->
                               <<SourceNodeFinding(start_node_id, sink)>>]
                      ELSE EmptyMap

\* The save node and whether some link has it as its target
SinkRec == DictGet(nodes, start_node_id)
SinkHasIncoming == \E i \in 1..Len(links) : StrOfNat(links[i][4]) = start_node_id

\* C11 as stated: a map returned after a trace has a category with a finding.
C11_MapNonEmpty ==
    (pc = "done" /\ result.kind = "map") =>
        \E c \in DOMAIN result.map : Len(result.map[c]) > 0

\* C11: a map returned after a trace has no empty category, and it has no
\* category at all only if the save node has an incoming link, is disabled or
\* has widgets_values: a save node without incoming link, enabled and without
\* widgets_values, is in the map.
C11_EmptyMapOnlyWithoutSource ==
    (pc = "done" /\ result.kind = "map") =>
        /\ \A c \in DOMAIN result.map : Len(result.map[c]) > 0
        /\ result.map = EmptyMap =>
               SinkHasIncoming \/ SinkRec.mode # 0 \/ HasWidgets(SinkRec)
        /\ (~SinkHasIncoming /\ SinkRec.mode = 0 /\ ~HasWidgets(SinkRec)) =>
               start_node_id \in NodeIds(result.map[SourceNodesCategory])

\* The trace ran from an enabled save node with an incoming link and the map
\* returned has no category.
C11_Witness ==
    /\ pc = "done"
    /\ result = ReturnMap(EmptyMap)
    /\ SinkHasIncoming
    /\ SinkRec.mode = 0
    /\ start_node_id \in visited

\* The Text Resolver as the specification words it, as a function: the parts
\* of node id given the ids already seen by this resolution, and the ids seen
\* afterwards.  every = TRUE converts every entry of a concat node's
\* widgets_values to a string; every = FALSE only the strings and numbers.
RECURSIVE ResolveParts(_, _, _), ResolveEdges(_, _, _)
ResolveParts(id, seen, every) ==
    IF id \in seen THEN [parts |-> <<>>, seen |-> seen]
    ELSE IF ~DictHas(nodes, id) \/ DictGet(nodes, id).mode # 0
    THEN [parts |-> <<>>, seen |-> seen \cup {id}]
    ELSE LET n == DictGet(nodes, id)
             incoming == SelectSeq(links, LAMBDA l : StrOfNat(l[4]) = id
                                                      /\ l[6] \in TextLinkTypes)
             up == ResolveEdges(incoming, seen \cup {id}, every)
             own == [i \in 1..Len(n.widgets_values) |-> StrOfValue(n.widgets_values[i])]
             kept == SelectSeq(n.widgets_values, LAMBDA v : every \/ IsTextScalar(v))
         IN  [seen |-> up.seen,
              parts |-> IF Contains(Lower(GetType(n, K_UnknownSource)), K_concat)
                        THEN up.parts \o [i \in 1..Len(kept) |-> StrOfValue(kept[i])]
                        ELSE IF Len(up.parts) = 0 /\ Len(own) > 0 THEN <<own[1]>>
                        ELSE up.parts]

ResolveEdges(edges, seen, every) ==
    IF Len(edges) = 0 THEN [parts |-> <<>>, seen |-> seen]
    ELSE LET first == ResolveParts(StrOfNat(Head(edges)[2]), seen, every)
             rest == ResolveEdges(Tail(edges), first.seen, every)
         IN  [parts |-> first.parts \o rest.parts, seen |-> rest.seen]

\* The prompt string of the parts resolved from id
ClaimedPrompt(id, every) == Strip(JoinSpace(ResolveParts(id, {}, every).parts))

PromptCategories == {"Positive Prompts", "Negative Prompts"}

\* The prompt findings of the trace whose source is an enabled concat node
\* have the value prompt(source)
ConcatPromptsAre(prompt(_)) ==
    pc = "normalize" =>
        \A c \in PromptCategories \cap DOMAIN identified_inputs :
            \A i \in 1..Len(identified_inputs[c]) :
                LET f == identified_inputs[c][i]
                IN  (DictHas(nodes, f.node_id) /\ IsConcat(DictGet(nodes, f.node_id)))
                        => f.value = VStr(prompt(f.node_id))

\* C12 as stated: the prompt of an enabled concat node is the parts resolved
\* from the sources of its STRING, TEXT and CONDITIONING links in link order,
\* then every entry of its widgets_values as a string, joined by one space and
\* stripped.
C12_ConcatAllWidgets == ConcatPromptsAre(LAMBDA id : ClaimedPrompt(id, TRUE))

\* C12: the prompt of an enabled concat node is the parts resolved from the
\* sources of its STRING, TEXT and CONDITIONING links in link order, then the
\* entries of its widgets_values that are strings or numbers, as strings (an
\* entry of another type is left out), joined by one space and stripped.
C12_ConcatTextWidgets == ConcatPromptsAre(LAMBDA id : ClaimedPrompt(id, FALSE))

\* The concat node 2 with widgets_values [", m ", [2]], fed over a STRING link
\* by the loader 3 with widgets_values ["d/m"], resolved to "d/m , m".
C12_Witness ==
    /\ pc = "done"
    /\ HasLink(1) /\ HasLink(7)
    /\ DictGet(nodes, <<"2">>).type = T_Concat
    /\ DictGet(nodes, <<"3">>).type = T_Ckpt /\ DictGet(nodes, <<"3">>).mode = 0
    /\ "Positive Prompts" \in DOMAIN result.map
    /\ result.map["Positive Prompts"][1].value = VStr(<<"d", "/", "m", " ", ",", " ", "m">>)

Values(items) == {items[i].value : i \in 1..Len(items)}
NoEqualValues(items) ==
    \A i, j \in 1..Len(items) : items[i].value = items[j].value => i = j

\* The handler of a link from src into a slot of category c has ended in this
\* step: every other category is as before; category c is as before when no
\* part is resolved or a finding of c has the joined prompt as its value, and
\* else has one finding more, of node_id src and that value
HandlerRecorded(c, src) ==
    LET parts == ResolveParts(src, {}, FALSE).parts
        final_prompt == VStr(Strip(JoinSpace(parts)))
        before == IF c \in DOMAIN identified_inputs THEN identified_inputs[c] ELSE <<>>
        after == IF c \in DOMAIN identified_inputs' THEN identified_inputs'[c] ELSE <<>>
    IN  /\ \A d \in (DOMAIN identified_inputs \cup DOMAIN identified_inputs') \ {c} :
               /\ d \in DOMAIN identified_inputs /\ d \in DOMAIN identified_inputs'
               /\ identified_inputs'[d] = identified_inputs[d]
        /\ IF Len(parts) = 0 \/ final_prompt \in Values(before)
           THEN after = before
           ELSE /\ Len(after) = Len(before) + 1
                /\ SubSeq(after, 1, Len(before)) = before
                /\ after[Len(after)].node_id = src
                /\ after[Len(after)].value = final_prompt
                /\ after[Len(after)].type = "TEXT"

\* C13: the handler of a CONDITIONING link with a category records at most
\* one finding, of the link's source and with the joined prompt as value, and
\* only when parts were resolved and no finding of the category has that
\* value; no two findings of "Positive Prompts" or of "Negative Prompts" ever
\* have equal values.
C13_OnePromptPerValue ==
    /\ [][(Dispatching({"CONDITIONING"}) /\ pc' # "resolve"
             /\ SlotCategory(NextTarget, NextLink[5]) # "")
            => HandlerRecorded(SlotCategory(NextTarget, NextLink[5]), NextSource)]_vars
    /\ [][(pc = "resolve" /\ pc' # "resolve")
            => HandlerRecorded(category, cond_source)]_vars
    /\ [](\A c \in PromptCategories :
             /\ c \in DOMAIN identified_inputs => NoEqualValues(identified_inputs[c])
             /\ c \in DOMAIN result.map => NoEqualValues(result.map[c]))

\* The loaders 2 and 3, both with the prompt "d/m", each fed the sink's slot
\* "Positive": the map returned has one positive prompt, from node 2.
C13_Witness ==
    /\ pc = "done"
    /\ HasLink(1) /\ HasLink(3)
    /\ DictGet(nodes, <<"2">>).type = T_Ckpt /\ DictGet(nodes, <<"2">>).mode = 0
    /\ DictGet(nodes, <<"3">>).type = T_Ckpt /\ DictGet(nodes, <<"3">>).mode = 0
    /\ "Positive Prompts" \in DOMAIN result.map
    /\ NodeIds(result.map["Positive Prompts"]) = {<<"2">>}

\* C14: the prompt resolved from a source is the same for every CONDITIONING
\* link from it, whatever was resolved before: when the trace is over, for
\* every such link into a slot with a category of a traversed node, the
\* category holds the prompt of the source, and holds no finding of the source
\* when the source resolves to no part.
C14_ResolutionRepeatable ==
    pc = "normalize" =>
        \A i \in 1..Len(links) :
            LET l == links[i]
                src == StrOfNat(l[2])
                c == IF Reached(l) THEN SlotCategory(DictGet(nodes, StrOfNat(l[4])), l[5])
                     ELSE ""
                parts == ResolveParts(src, {}, FALSE).parts
            IN  (l[6] = "CONDITIONING" /\ c # "") =>
                    IF Len(parts) = 0
                    THEN c \in DOMAIN identified_inputs
                             => src \notin NodeIds(identified_inputs[c])
                    ELSE /\ c \in DOMAIN identified_inputs
                         /\ VStr(Strip(JoinSpace(parts))) \in Values(identified_inputs[c])

\* Node 2, which has a link to itself, fed the sink's slots "Positive" and
\* "negative": both resolutions gave the same prompt.
C14_Witness ==
    /\ pc = "done"
    /\ HasLink(1) /\ HasLink(2) /\ HasLink(17)
    /\ PromptCategories \subseteq DOMAIN result.map
    /\ NodeIds(result.map["Positive Prompts"]) = {<<"2">>}
    /\ NodeIds(result.map["Negative Prompts"]) = {<<"2">>}
    /\ result.map["Positive Prompts"][1].value = result.map["Negative Prompts"][1].value

\* C15: the normalisation of a returned map is that map.
C15_NormalizerIdempotent ==
    (pc = "done" /\ result.kind = "map") =>
        process_workflow_metadata(result.map) = result.map

\* The final component of a path: what follows its last "/"
FinalComponent(path) ==
    LET slashes == {i \in 1..Len(path) : path[i] = "/"}
    IN  IF slashes = {} THEN path
        ELSE SubSeq(path, (CHOOSE i \in slashes : \A j \in slashes : j <= i) + 1, Len(path))

\* A finding as the claim has the normaliser leave it in category c
NormalizedAsClaimed(c, item) ==
    IF item.has_value /\ item.value.k = "list" /\ Len(item.value.l) = 1
    THEN LET element == item.value.l[1]
         IN  [item EXCEPT !.value =
                  IF element.k = "str"
                     /\ c \in {"Base Models", "VAE", "CLIP", "Checkpoint", "Model",
                               "LoRA Models"}
                  THEN VStr(FinalComponent(element.s))
                  ELSE element]
    ELSE item

\* C16: the normaliser maps each finding that is the first of its node_id to
\* the same finding, with `value` replaced only when it is a list of one
\* element: by the element, or by the final path component of the element when
\* that is a string and the category is Base Models, VAE, CLIP, Checkpoint,
\* Model or LoRA Models.
C16_ValueRewrite ==
    [][pc = "normalize" =>
          /\ result'.kind = "map"
          /\ DOMAIN result'.map = DOMAIN identified_inputs
          /\ \A c \in DOMAIN identified_inputs :
                 LET kept == FirstOfEachId(identified_inputs[c])
                 IN  result'.map[c] =
                         [i \in 1..Len(kept) |-> NormalizedAsClaimed(c, kept[i])]]_vars

\* A map was returned in which the loader 2 with widgets_values ["d/m"] has
\* the value "m" under "Base Models", and another finding kept a value of two
\* elements or a string.
C16_Witness ==
    /\ pc = "done"
    /\ result.kind = "map"
    /\ "Base Models" \in DOMAIN result.map
    /\ \E i \in 1..Len(result.map["Base Models"]) :
           /\ result.map["Base Models"][i].node_id = <<"2">>
           /\ result.map["Base Models"][i].value = VStr(<<"m">>)
    /\ DictGet(nodes, <<"2">>).type = T_Ckpt
    /\ \E c \in DOMAIN result.map \ {"Base Models"} : Len(result.map[c]) > 0

\* A node whose type names a save node and which has an input of type image
HasImageInput(rec) ==
    /\ \E k \in 1..Len(image_save_keywords) :
           Contains(Lower(GetType(rec, <<>>)), image_save_keywords[k])
    /\ rec.has_inputs
    /\ \E i \in 1..Len(rec.inputs) : Lower(rec.inputs[i].type) = K_image

\* C17: when some node names a save node in its type and has an input of type
\* image, the save node found is the first such node of the mapping, wherever
\* the other nodes are.
C17_ImageInputPreferred ==
    (pc # "start" /\ \E i \in 1..Len(nodes) : HasImageInput(nodes[i].rec)) =>
        LET first == CHOOSE i \in 1..Len(nodes) :
                         /\ HasImageInput(nodes[i].rec)
                         /\ \A j \in 1..(i - 1) : ~HasImageInput(nodes[j].rec)
        IN  Len(links) > 0 => start_node_id = nodes[first].key

\* C18: no step of the analysis changes the workflow (node records,
\* widgets_values lists, links), and the map returned is the map that an
\* analysis of the workflow as it is after the call returns.
C18_WorkflowUnchanged ==
    /\ [][workflow' = workflow]_vars
    /\ [](pc = "done" /\ result.kind = "map" =>
             result.map = process_workflow_metadata(
                              TraceOf(nodes, links, find_image_save_node(nodes).id)))

\* A map was returned in which the value of the loader 2, which was the list
\* ["d/m"] of the node, is "m", and the node still has ["d/m"].
C18_Witness ==
    /\ pc = "done"
    /\ result.kind = "map"
    /\ "Base Models" \in DOMAIN result.map
    /\ result.map["Base Models"][1].node_id = <<"2">>
    /\ result.map["Base Models"][1].value = VStr(<<"m">>)
    /\ DictGet(nodes, <<"2">>).widgets_values = <<VStr(<<"d", "/", "m">>)>>

\* C19: when the trace is over, the source of every CONDITIONING link into a
\* traversed node has been visited by _traverse, whether or not the link had a
\* prompt category.
C19_ConditioningSourceTraversed ==
    pc = "normalize" =>
        \A i \in 1..Len(links) :
            (links[i][6] = "CONDITIONING" /\ Reached(links[i]))
                => StrOfNat(links[i][2]) \in visited

\* C20: the dispatch of a MODEL link calls _traverse on the link's source in
\* every case, so that the source is visited afterwards.
C20_ModelSourceTraversed ==
    [][Dispatching({"MODEL"}) => NextSource \in visited']_vars

\* The Text Resolver with the fallback of a non-concat node as C21 states it:
\* the node's own widgets_values[0] is used only when the node has no incoming
\* STRING, TEXT or CONDITIONING link.
RECURSIVE PartsAsStated(_, _), EdgePartsAsStated(_, _)
PartsAsStated(id, seen) ==
    IF id \in seen THEN [parts |-> <<>>, seen |-> seen]
    ELSE IF ~DictHas(nodes, id) \/ DictGet(nodes, id).mode # 0
    THEN [parts |-> <<>>, seen |-> seen \cup {id}]
    ELSE LET n == DictGet(nodes, id)
             incoming == SelectSeq(links, LAMBDA l : StrOfNat(l[4]) = id
                                                      /\ l[6] \in TextLinkTypes)
             up == EdgePartsAsStated(incoming, seen \cup {id})
             kept == SelectSeq(n.widgets_values, IsTextScalar)
         IN  [seen |-> up.seen,
              parts |-> IF Contains(Lower(GetType(n, K_UnknownSource)), K_concat)
                        THEN up.parts \o [i \in 1..Len(kept) |-> StrOfValue(kept[i])]
                        ELSE IF Len(incoming) = 0 /\ Len(n.widgets_values) > 0
                        THEN <<StrOfValue(n.widgets_values[1])>>
                        ELSE up.parts]

EdgePartsAsStated(edges, seen) ==
    IF Len(edges) = 0 THEN [parts |-> <<>>, seen |-> seen]
    ELSE LET first == PartsAsStated(StrOfNat(Head(edges)[2]), seen)
             rest == EdgePartsAsStated(Tail(edges), first.seen)
         IN  [parts |-> first.parts \o rest.parts, seen |-> rest.seen]

\* C21: when the trace is over, every CONDITIONING link into a slot with a
\* category of a traversed node has left in the category the prompt of its
\* source, where a non-concat node with an incoming STRING, TEXT or
\* CONDITIONING link resolves to the parts of those links' sources only, and
\* to its own widgets_values[0] only without such a link.
C21_FallbackOnlyWithoutTextLink ==
    pc = "normalize" =>
        \A i \in 1..Len(links) :
            LET l == links[i]
                src == StrOfNat(l[2])
                c == IF Reached(l) THEN SlotCategory(DictGet(nodes, StrOfNat(l[4])), l[5])
                     ELSE ""
                parts == PartsAsStated(src, {}).parts
            IN  (l[6] = "CONDITIONING" /\ c # "") =>
                    IF Len(parts) = 0
                    THEN c \in DOMAIN identified_inputs
                             => src \notin NodeIds(identified_inputs[c])
                    ELSE /\ c \in DOMAIN identified_inputs
                         /\ VStr(Strip(JoinSpace(parts))) \in Values(identified_inputs[c])

IsSuffix(a, b) == Len(a) <= Len(b) /\ a = SubSeq(b, Len(b) - Len(a) + 1, Len(b))

\* The links of the workflow into the node `id`, in their order
LinksInto(id) == SelectSeq(links, LAMBDA l : StrOfNat(l[4]) = id)

\* The calls of _traverse in progress are calls for different visited nodes, and
\* each has still to dispatch a tail of the links into its node
OneCallPerNode ==
    /\ \A i, j \in 1..Len(stack) : stack[i].node = stack[j].node => i = j
    /\ \A i \in 1..Len(stack) :
           /\ stack[i].node \in visited
           /\ IsSuffix(stack[i].links, LinksInto(stack[i].node))

\* A step of the trace starts no call of _traverse for a node that was already
\* visited: such a node has the call it had, with the same or fewer links left
NoSecondCall ==
    /\ visited \subseteq visited'
    /\ \A i \in 1..Len(stack') :
           stack'[i].node \in visited =>
               /\ i <= Len(stack)
               /\ stack[i].node = stack'[i].node
               /\ IsSuffix(stack'[i].links, stack[i].links)

\* The link a step of the trace dispatches is left in no call afterwards
DispatchedOnce ==
    pc = "trace" =>
        \A i \in 1..Len(stack') :
            stack'[i].node = CurrentNode(State) =>
                \A k \in 1..Len(stack'[i].links) : stack'[i].links[k] # NextLink

\* C22: the tracer processes each node at most once and dispatches each link
\* at most once, whatever the paths and cycles: no node has two calls of
\* _traverse, a visited node is never entered again, a dispatched link is never
\* left to dispatch, and "Source Nodes (No Parameters)" never holds a node
\* twice, in the trace and in the returned map.
C22_EachNodeOnce ==
    /\ [](OneCallPerNode)
    /\ [](SourceNodesCategory \in DOMAIN identified_inputs
             => NoDuplicateIds(identified_inputs[SourceNodesCategory]))
    /\ [](result.kind = "map" /\ SourceNodesCategory \in DOMAIN result.map
             => NoDuplicateIds(result.map[SourceNodesCategory]))
    /\ [][NoSecondCall /\ DispatchedOnce]_vars

\* An analysis has ended in which node 2 was reached from the sink over two
\* links and once more from itself over the link 2 -> 2.
C22_Witness ==
    /\ pc = "done"
    /\ HasLink(4) /\ HasLink(13) /\ HasLink(17)
    /\ <<"2">> \in visited

\* The maps `a` and `b` hold the same findings in every category but `c`
SameOutside(a, b, c) ==
    \A k \in (DOMAIN a \cup DOMAIN b) \ {c} :
        k \in DOMAIN a /\ k \in DOMAIN b /\ a[k] = b[k]

\* A step of _handle_conditioning_link: the dispatch of a CONDITIONING link or
\* one link scanned by _trace_prompt_source. It leaves `visited` alone and
\* changes the findings of the prompt category of the slot at most.
ResolverFrame ==
    /\ pc = "resolve" =>
           /\ visited' = visited
           /\ SameOutside(identified_inputs, identified_inputs', category)
    /\ (pc = "trace" /\ NextLink[6] = "CONDITIONING") =>
           /\ visited' = visited
           /\ SameOutside(identified_inputs, identified_inputs',
                          SlotCategory(NextTarget, NextLink[5]))

\* The trace reaches over a link that is not a CONDITIONING link a node that
\* the latest prompt resolution walked and _traverse has not visited: the
\* node is processed by _traverse
WalkedNodeProcessed ==
    (/\ pc = "trace"
     /\ NextLink[6] # "CONDITIONING"
     /\ NextSource \in prompt_visited
     /\ NextSource \notin visited) => NextSource \in visited'

\* C23: the resolver's visited set is independent of the tracer's: a prompt
\* resolution adds no node to `visited` and changes no category but the prompt
\* category it resolves for, and a node it walked is still processed by the
\* tracer when the trace reaches it over a link that is not a CONDITIONING
\* link.
C23_ResolverIndependent == [][ResolverFrame /\ WalkedNodeProcessed]_vars

\* The node `id` is missing from the workflow or disabled
Dead(id) == ~DictHas(nodes, id) \/ DictGet(nodes, id).mode # 0

\* The links of the workflow between nodes that exist and are enabled
LiveLinks ==
    SelectSeq(links, LAMBDA l : ~Dead(StrOfNat(l[2])) /\ ~Dead(StrOfNat(l[4])))

\* C24: a missing or disabled node gives the resolver no parts and its
\* upstream is not walked: no call of _trace_prompt_source is ever in progress
\* for such a node; the handler of a CONDITIONING link whose source is missing
\* or disabled ends at once and records nothing; and when the trace is over,
\* the prompt left by every CONDITIONING link is the one resolved in the
\* workflow without the links from and into missing and disabled nodes, so
\* that such a node contributes neither its widgets nor the text behind it.
C24_DeadNodesGiveNoText ==
    /\ [](\A i \in 1..Len(pstack) : ~Dead(pstack[i].node))
    /\ [][(Dispatching({"CONDITIONING"}) /\ Dead(NextSource))
            => (pc' # "resolve" /\ identified_inputs' = identified_inputs)]_vars
    /\ [](pc = "normalize" =>
            \A i \in 1..Len(links) :
                LET l == links[i]
                    src == StrOfNat(l[2])
                    c == IF Reached(l)
                         THEN SlotCategory(DictGet(nodes, StrOfNat(l[4])), l[5])
                         ELSE ""
                    live == IF c = "" THEN EmptyMap ELSE PromptOf(nodes, LiveLinks, src, c)
                IN  (l[6] = "CONDITIONING" /\ c # "") =>
                        IF c \notin DOMAIN live
                        THEN c \in DOMAIN identified_inputs
                                 => src \notin NodeIds(identified_inputs[c])
                        ELSE /\ c \in DOMAIN identified_inputs
                             /\ Values(live[c]) \subseteq Values(identified_inputs[c]))

\* The concat node 2 and the disabled loader 3, which feeds it text, both fed
\* the sink's slot "Positive": the map returned has one positive prompt, from
\* node 2 and made of its own widget only.
C24_Witness ==
    /\ pc = "done"
    /\ HasLink(1) /\ HasLink(3) /\ HasLink(7)
    /\ DictGet(nodes, <<"2">>).type = T_Concat
    /\ DictGet(nodes, <<"3">>).mode # 0 /\ HasWidgets(DictGet(nodes, <<"3">>))
    /\ "Positive Prompts" \in DOMAIN result.map
    /\ NodeIds(result.map["Positive Prompts"]) = {<<"2">>}
    /\ result.map["Positive Prompts"][1].value = VStr(<<",", " ", "m">>)

\* The sink rules as C25 states them: the type contains a save keyword, and
\* the node has an input of type image or its type is exactly "Save Image",
\* whether or not it has an `inputs` field
SinkAsStated(rec) ==
    /\ LET node_type == Lower(GetType(rec, <<>>))
       IN  \E i \in 1..Len(image_save_keywords) :
               Contains(node_type, image_save_keywords[i])
    /\ \/ HasImageInput(rec)
       \/ rec.has_type /\ rec.type = K_SaveImage

\* C25: in a workflow that has nodes and links, the analysis returns None for
\* want of a sink exactly when no node has a save keyword in its type together
\* with an image input or the exact type "Save Image"; a "Save Image" node is
\* the sink with `inputs` absent, empty or without an image input.
C25_SaveImageAccepted ==
    (/\ pc # "start"
     /\ workflow.is_dict /\ NormalizeNodes(workflow).ok
     /\ Len(nodes) > 0 /\ Len(links) > 0)
        => ((pc = "done" /\ result.kind = "None")
               <=> ~\E i \in 1..Len(nodes) : SinkAsStated(nodes[i].rec))

\* C26: the Edge Index, asked for a numeric-string id by a call of _traverse
\* or of _trace_prompt_source, returns exactly the links whose target is that
\* id, in the order of the workflow's list: every call that starts has these
\* links to go through; and the list of links is never changed.
C26_EdgeIndex ==
    [][/\ \A i \in 1..Len(stack') :
              i > Len(stack) => stack'[i].links = LinksInto(stack'[i].node)
       /\ \A i \in 1..Len(pstack') :
              i > Len(pstack) => pstack'[i].links = LinksInto(pstack'[i].node)
       /\ links' = links]_vars

\* The trace has started at the sink 1 with the links 1 and 6 to dispatch, in
\* this order, the link 5 into node 2 lying between them in the workflow.
C26_Witness ==
    /\ pc = "trace"
    /\ links = <<Link(1, 2, 0, 1, 1, "CONDITIONING"), Link(5, 3, 0, 2, 0, "MODEL"),
                 Link(6, 2, 1, 1, 0, "VAE")>>
    /\ Len(stack) = 1 /\ stack[1].node = <<"1">>
    /\ stack[1].links = <<links[1], links[3]>>

\* The mapping C27 states for nodes given as a sequence of records with
\* distinct ids: the records that have an `id`, in their order, each under the
\* string of its id
MappingOf(recs) ==
    LET with_id == SelectSeq(recs, LAMBDA r : r.has_id)
    IN  [i \in 1..Len(with_id) |-> Entry(StrOfNat(with_id[i].id), with_id[i])]

\* What analyze_comfyui_workflow(w) returns, as a function of w
AnalysisOf(w) ==
    IF AnalysisFails(w) THEN ReturnNone
    ELSE LET nds == NormalizeNodes(w).nodes
             end == RunTrace(TraceInit(nds, GetLinks(w), find_image_save_node(nds).id))
         IN  IF end.pc = "normalize"
             THEN ReturnMap(process_workflow_metadata(end.identified_inputs))
             ELSE NoResult

\* C27: the nodes the analysis works on are the mapping itself when the
\* workflow gives a mapping, and when it gives a sequence the records that
\* have an `id`, each under the string of its id, the others being skipped;
\* and the analysis of a workflow with a sequence of nodes returns what the
\* analysis of the workflow with that mapping returns.
C27_SequenceAsMapping ==
    /\ workflow.is_dict /\ workflow.nodes_form = "dict" => nodes = workflow.nodes_dict
    /\ workflow.is_dict /\ workflow.nodes_form = "list" =>
           /\ nodes = MappingOf(workflow.nodes_list)
           /\ pc = "done" =>
                  result = AnalysisOf(Workflow(TRUE, "dict", MappingOf(workflow.nodes_list),
                                               <<>>, workflow.has_links, workflow.links))

\* The analysis of a workflow with a sequence of nodes, one of them without
\* `id` before the loader 2, has returned a map with node 2 as base model.
C27_Witness ==
    /\ pc = "done"
    /\ workflow.nodes_form = "list"
    /\ \E i \in 1..Len(workflow.nodes_list) :
           /\ ~workflow.nodes_list[i].has_id
           /\ \E j \in (i + 1)..Len(workflow.nodes_list) :
                  workflow.nodes_list[j].has_id /\ workflow.nodes_list[j].id = 2
    /\ result.kind = "map"
    /\ "Base Models" \in DOMAIN result.map
    /\ NodeIds(result.map["Base Models"]) = {<<"2">>}

\* Every finding of the map `m` is of a node of the workflow that is enabled
FindingsOfLiveNodes(m) ==
    \A c \in DOMAIN m : \A i \in 1..Len(m[c]) : ~Dead(m[c][i].node_id)

\* C28: in every state of the trace and in the returned map, the node_id of
\* every finding names a node that exists in the workflow and is enabled (mode
\* 0): a disabled node or a dangling id is never recorded.
C28_OnlyLiveNodesRecorded ==
    /\ FindingsOfLiveNodes(identified_inputs)
    /\ result.kind = "map" => FindingsOfLiveNodes(result.map)

\* The sink has MODEL links from the loader 2 and from the disabled loader 3,
\* and node 2 a MODEL link from the missing node 9: the map returned has the
\* findings of node 2 only.
C28_Witness ==
    /\ pc = "done"
    /\ HasLink(4) /\ HasLink(11) /\ HasLink(14)
    /\ DictGet(nodes, <<"2">>).type = T_Ckpt /\ DictGet(nodes, <<"2">>).mode = 0
    /\ DictGet(nodes, <<"3">>).mode # 0 /\ HasWidgets(DictGet(nodes, <<"3">>))
    /\ {<<"3">>, <<"9">>} \subseteq visited
    /\ DOMAIN result.map = {"Base Models"}
    /\ NodeIds(result.map["Base Models"]) = {<<"2">>}

\* The ids from which the ids of S are reached along the links, S included
RECURSIVE BackwardClosure(_)
BackwardClosure(S) ==
    LET more == {StrOfNat(links[i][2]) : i \in {j \in 1..Len(links) :
                                                    StrOfNat(links[j][4]) \in S}}
    IN  IF more \subseteq S THEN S ELSE BackwardClosure(S \cup more)

\* The ids from which the sink is reached along the links
ReachSink == BackwardClosure({start_node_id})

FindingsWithin(m, S) ==
    \A c \in DOMAIN m : \A i \in 1..Len(m[c]) : m[c][i].node_id \in S

\* C29: in every state of the trace and in the returned map, the node_id of
\* every finding is an id from which the sink is reached along the links of
\* the workflow: a node from which the sink cannot be reached is never
\* recorded.
C29_FindingsReachSink ==
    /\ FindingsWithin(identified_inputs, ReachSink)
    /\ result.kind = "map" => FindingsWithin(result.map, ReachSink)

\* The loader 2 has a MODEL link to the sink, the loader 3 only a link to the
\* missing node 9: the map returned has node 2 and not node 3.
C29_Witness ==
    /\ pc = "done"
    /\ HasLink(4) /\ HasLink(16)
    /\ DictGet(nodes, <<"2">>).type = T_Ckpt /\ DictGet(nodes, <<"2">>).mode = 0
    /\ DictGet(nodes, <<"3">>).type = T_Ckpt /\ DictGet(nodes, <<"3">>).mode = 0
    /\ <<"3">> \notin ReachSink
    /\ "Base Models" \in DOMAIN result.map
    /\ NodeIds(result.map["Base Models"]) = {<<"2">>}

NoEmptyCategory(m) == \A c \in DOMAIN m : Len(m[c]) > 0

\* C30: a category is a key of the map only if it has at least one finding,
\* in every state of the trace and in the map the normalizer returns: no
\* branch creates a category without appending to it, and the normalizer
\* empties none.
C30_NoEmptyCategory ==
    /\ NoEmptyCategory(identified_inputs)
    /\ result.kind = "map" => NoEmptyCategory(result.map)

\* The sink's slot "Positive" is fed by the disabled loader 3, which resolves
\* to no text, and the sink has a MODEL link from the loader 2: the map
\* returned has the base model and no key "Positive Prompts".
C30_Witness ==
    /\ pc = "done"
    /\ links = <<Link(3, 3, 0, 1, 1, "CONDITIONING"), Link(4, 2, 0, 1, 0, "MODEL")>>
    /\ DictGet(nodes, <<"3">>).mode # 0
    /\ DictGet(nodes, <<"2">>).type = T_Ckpt /\ DictGet(nodes, <<"2">>).mode = 0
    /\ DOMAIN result.map = {"Base Models"}
    /\ Len(result.map["Base Models"]) = 1

====
